---- MODULE Spec2Model ----
(***************************************************************************)
(* Model of the file-per-thread knowledge-graph store of                   *)
(* mcp-memory-graph-enhanced (src/memory-enhanced/index.ts and lib/).       *)
(*                                                                         *)
(* The persisted state is the memory directory: a map from file names to   *)
(* the lines of each file.  Every manager operation loads the whole graph  *)
(* from the directory, computes on it in memory and saves the whole graph  *)
(* back.                                                                   *)
(*                                                                         *)
(* Encoding of the data:                                                   *)
(*   - timestamps are canonical ISO-8601 strings in the code; the model    *)
(*     numbers them 1..MaxTime in chronological (= lexicographic) order,   *)
(*     and 0 stands for an absent or empty string;                         *)
(*   - confidence and importance are numbers in [0,1] in the code; the     *)
(*     model scales them to 0..MaxImportance;                              *)
(*   - an optional value is a sequence of length 0 (undefined) or 1;       *)
(*   - agentThreadId values are identifier-like strings (no path           *)
(*     separator, no line terminator).                                     *)
(***************************************************************************)
EXTENDS Integers, Sequences, FiniteSets, TLC

VARIABLES
    files,   \* the memory directory: file name -> sequence of lines
    last,    \* the last completed operation: its inputs, its result, the graph it loaded
    procs    \* concurrent callers: the position and the local data of each

vars == <<files, last, procs>>

----------------------------------------------------------------------------
(* Bounds of the model. *)

MaxImportance == 1    \* importance values are 0..MaxImportance
MaxTime == 2          \* timestamps are 1..MaxTime
MaxBatch == 2         \* longest list passed to one operation
MaxStore == 2         \* a create that would leave more entities than this is not started
MaxRelations == 2     \* a create that would leave more relations than this is not started

Names == {"A", "B"}
Threads == {"t1", "t2"}
RelationTypes == {"knows"}

Undefined == <<>>
Some(v) == <<v>>

\* A JSON value that is not a number (null, a string, absent).
NotANumber == 0 - 1

\* All sequences over S of length lo..hi.
SeqsOf(S, lo, hi) == UNION {[1..n -> S] : n \in lo..hi}

\* The elements of a sequence.
Range(s) == {s[i] : i \in DOMAIN s}

RECURSIVE SetToSeq(_)
SetToSeq(S) ==
    IF S = {} THEN <<>>
    ELSE LET x == CHOOSE y \in S : TRUE IN <<x>> \o SetToSeq(S \ {x})

----------------------------------------------------------------------------
(* Graph records (index.ts: Entity, Relation, KnowledgeGraph). *)

Entity(n, t, ts, imp) ==
    [name |-> n, entityType |-> "T", observations |-> <<>>,
     observationsV2 |-> Undefined, agentThreadId |-> t, timestamp |-> ts,
     confidence |-> MaxImportance, importance |-> imp]

Relation(f, to, rt, t) ==
    [from |-> f, to |-> to, relationType |-> rt, agentThreadId |-> t,
     timestamp |-> 1, confidence |-> MaxImportance, importance |-> MaxImportance]

KnowledgeGraph(es, rs) == [entities |-> es, relations |-> rs]

EmptyGraph == KnowledgeGraph(<<>>, <<>>)

----------------------------------------------------------------------------
(* The file-per-thread adapter: file names. *)

\* getThreadFilePath: `thread-${agentThreadId}.jsonl` in the memory directory.
getThreadFilePath(agentThreadId) == <<"thread-", agentThreadId, ".jsonl">>

\* f.startsWith('thread-') && f.endsWith('.jsonl')
IsThreadFile(f) == f[1] = "thread-" /\ f[3] = ".jsonl"

\* fileName.match(/^thread-(.+)\.jsonl$/): the captured thread id, or Undefined
\* when the name does not match (the group needs at least one character).
MatchThreadId(f) ==
    IF IsThreadFile(f) /\ f[2] # "" THEN Some(f[2]) ELSE Undefined

----------------------------------------------------------------------------
(* JSON lines.  A line of a thread file is one of                           *)
(*   [json |-> "blank"]    an empty or whitespace-only line                 *)
(*   [json |-> "invalid"]  text that JSON.parse rejects                     *)
(*   [json |-> "null"]     the JSON value null                              *)
(*   [json |-> "value"]    any other JSON value with no type of its own     *)
(*   [json |-> "object", type |-> "entity" | "relation" | other, fields]    *)
(* In an object, an absent or empty string field is "", an absent           *)
(* timestamp is 0, a field that is not a number is NotANumber, and          *)
(* observations is Some(list) when it is an array, Undefined otherwise.     *)

\* Mutant of EntityLine: the versioned observations are not written.
EntityLine_NoV2(e) ==
    [json |-> "object", type |-> "entity", name |-> e.name,
     entityType |-> e.entityType, observations |-> Some(e.observations),
     observationsV2 |-> Undefined, agentThreadId |-> e.agentThreadId,
     timestamp |-> e.timestamp, confidence |-> e.confidence,
     importance |-> e.importance]

\* JSON.stringify of one entity (saveGraphForThread).
EntityLine(e) ==
    [json |-> "object", type |-> "entity", name |-> e.name,
     entityType |-> e.entityType, observations |-> Some(e.observations),
     observationsV2 |-> e.observationsV2, agentThreadId |-> e.agentThreadId,
     timestamp |-> e.timestamp, confidence |-> e.confidence,
     importance |-> e.importance]

\* JSON.stringify of one relation (saveGraphForThread).
RelationLine(r) ==
    [json |-> "object", type |-> "relation", from |-> r.from, to |-> r.to,
     relationType |-> r.relationType, agentThreadId |-> r.agentThreadId,
     timestamp |-> r.timestamp, confidence |-> r.confidence,
     importance |-> r.importance]

\* typeof x === 'number'
IsNumber(x) == x # NotANumber

\* The required-field test of an entity line.
EntityLineValid(item) ==
    /\ item.name # ""
    /\ item.entityType # ""
    /\ item.observations # Undefined
    /\ item.agentThreadId # ""
    /\ item.timestamp # 0
    /\ IsNumber(item.confidence)
    /\ IsNumber(item.importance)

\* The required-field test of a relation line.
RelationLineValid(item) ==
    /\ item.from # ""
    /\ item.to # ""
    /\ item.relationType # ""
    /\ item.agentThreadId # ""
    /\ item.timestamp # 0
    /\ IsNumber(item.confidence)
    /\ IsNumber(item.importance)

\* The entity pushed for a valid entity line.
EntityOfLine(item) ==
    [name |-> item.name, entityType |-> item.entityType,
     observations |-> item.observations[1],
     observationsV2 |-> item.observationsV2,
     agentThreadId |-> item.agentThreadId, timestamp |-> item.timestamp,
     confidence |-> item.confidence, importance |-> item.importance]

\* The relation pushed for a valid relation line.
RelationOfLine(item) ==
    [from |-> item.from, to |-> item.to, relationType |-> item.relationType,
     agentThreadId |-> item.agentThreadId, timestamp |-> item.timestamp,
     confidence |-> item.confidence, importance |-> item.importance]

\* One step of the reduce of loadGraphFromFile over the lines of a file.  The
\* accumulator carries ok = FALSE once a step has thrown; reading item.type of
\* a parsed null throws a TypeError, which the outer catch rethrows.
LoadLine(graph, line) ==
    IF ~graph.ok THEN graph
    ELSE IF line.json = "invalid" THEN graph
    ELSE IF line.json = "null" THEN [graph EXCEPT !.ok = FALSE]
    ELSE IF line.json = "value" THEN graph
    ELSE IF line.type = "entity" THEN
        IF EntityLineValid(line)
        THEN [graph EXCEPT !.entities = Append(@, EntityOfLine(line))]
        ELSE graph
    ELSE IF line.type = "relation" THEN
        IF RelationLineValid(line)
        THEN [graph EXCEPT !.relations = Append(@, RelationOfLine(line))]
        ELSE graph
    ELSE graph

RECURSIVE LoadLines(_, _)
LoadLines(graph, lines) ==
    IF lines = <<>> THEN graph
    ELSE LoadLines(LoadLine(graph, Head(lines)), Tail(lines))

\* loadGraphFromFile: split into lines, drop the blank ones, reduce.
loadGraphFromFile(lines) ==
    LoadLines([ok |-> TRUE, entities |-> <<>>, relations |-> <<>>],
              SelectSeq(lines, LAMBDA l : l.json # "blank"))

RECURSIVE MergeGraphs(_, _, _)
MergeGraphs(acc, dir, fileSeq) ==
    IF fileSeq = <<>> THEN acc
    ELSE LET g == loadGraphFromFile(dir[Head(fileSeq)]) IN
         MergeGraphs([ok |-> acc.ok /\ g.ok,
                      entities |-> acc.entities \o g.entities,
                      relations |-> acc.relations \o g.relations],
                     dir, Tail(fileSeq))

\* loadGraph: list the directory, load every thread file, concatenate.  The
\* order of readdir is fixed but arbitrary.  ok = FALSE: the load rejected.
loadGraph(dir) ==
    MergeGraphs([ok |-> TRUE, entities |-> <<>>, relations |-> <<>>], dir,
                SetToSeq({f \in DOMAIN dir : IsThreadFile(f)}))

\* The graph a reader gets from the directory.
Persisted(dir) ==
    LET g == loadGraph(dir) IN KnowledgeGraph(g.entities, g.relations)

----------------------------------------------------------------------------
(* The file-per-thread adapter: saving. *)

\* The keys of threadMap in saveGraph.
ThreadMapKeys(graph) ==
    {e.agentThreadId : e \in Range(graph.entities)}
        \cup {r.agentThreadId : r \in Range(graph.relations)}

\* The lines saveGraphForThread builds for one thread of the graph.
ThreadLines(graph, t) ==
    LET es == SelectSeq(graph.entities, LAMBDA e : e.agentThreadId = t)
        rs == SelectSeq(graph.relations, LAMBDA r : r.agentThreadId = t)
    IN  [i \in 1..Len(es) |-> EntityLine(es[i])]
            \o [i \in 1..Len(rs) |-> RelationLine(rs[i])]

\* fs.unlink, ENOENT ignored.
Unlink(dir, f) == [g \in DOMAIN dir \ {f} |-> dir[g]]

\* Mutant of saveGraphForThread: the lines are appended to the file.
saveGraphForThread_Append(dir, graph, t) ==
    LET lines == ThreadLines(graph, t)
        path == getThreadFilePath(t)
    IN  IF Len(lines) = 0 THEN Unlink(dir, path)
        ELSE (path :> ((IF path \in DOMAIN dir THEN dir[path] ELSE <<>>) \o lines)) @@ dir

\* saveGraphForThread: unlink the file when there is no line, else overwrite it.
saveGraphForThread(dir, graph, t) ==
    LET lines == ThreadLines(graph, t)
        path == getThreadFilePath(t)
    IN  IF Len(lines) = 0 THEN Unlink(dir, path)
        ELSE (path :> lines) @@ dir

RECURSIVE WriteThreads(_, _, _)
WriteThreads(dir, graph, ts) ==
    IF ts = {} THEN dir
    ELSE LET t == CHOOSE x \in ts : TRUE IN
         WriteThreads(saveGraphForThread(dir, graph, t), graph, ts \ {t})

\* Mutant of StaleFiles: no cleanup of stale thread files.
StaleFiles_None(listing, graph) == {}

\* The files the cleanup of saveGraph unlinks, given the listing it read.
StaleFiles(listing, graph) ==
    {f \in listing :
        /\ IsThreadFile(f)
        /\ MatchThreadId(f) # Undefined
        /\ MatchThreadId(f)[1] \notin ThreadMapKeys(graph)}

\* saveGraph run alone: write every thread of the map, then list the directory
\* and unlink the thread files that have no entry in the map.
saveGraph(dir, graph) ==
    LET written == WriteThreads(dir, graph, ThreadMapKeys(graph))
        stale == StaleFiles(DOMAIN written, graph)
    IN  [f \in DOMAIN written \ stale |-> written[f]]

----------------------------------------------------------------------------
(* Mutation operations of KnowledgeGraphManager (index.ts). *)

EntityNames(graph) == {e.name : e \in Range(graph.entities)}

SameTriple(r, x) ==
    r.from = x.from /\ r.to = x.to /\ r.relationType = x.relationType

\* Mutant of NewEntities: nothing is filtered out.
NewEntities_All(graph, entities) == entities

\* Mutant of NewEntities: a name is taken once per list as well.
RECURSIVE OncePerName(_, _)
OncePerName(entities, seen) ==
    IF entities = <<>> THEN <<>>
    ELSE IF Head(entities).name \in seen THEN OncePerName(Tail(entities), seen)
    ELSE <<Head(entities)>>
             \o OncePerName(Tail(entities), seen \cup {Head(entities).name})

NewEntities_OncePerName(graph, entities) ==
    OncePerName(entities, {x.name : x \in Range(graph.entities)})

\* createEntities: the entities of the list whose name no loaded entity has.
NewEntities(graph, entities) ==
    SelectSeq(entities,
              LAMBDA e : ~\E x \in Range(graph.entities) : x.name = e.name)

\* createEntities: the graph handed to saveGraph.
createEntities(graph, entities) ==
    KnowledgeGraph(graph.entities \o NewEntities(graph, entities), graph.relations)

\* Mutant of ValidRelations: only the from endpoint is looked up.
ValidRelations_FromOnly(graph, relations) ==
    SelectSeq(relations, LAMBDA r : r.from \in EntityNames(graph))

\* createRelations: the relations of the list whose endpoints are both names
\* of loaded entities.
ValidRelations(graph, relations) ==
    SelectSeq(relations,
              LAMBDA r : r.from \in EntityNames(graph) /\ r.to \in EntityNames(graph))

\* createRelations: the valid relations whose triple no loaded relation has.
NewRelations(graph, relations) ==
    SelectSeq(ValidRelations(graph, relations),
              LAMBDA r : ~\E x \in Range(graph.relations) : SameTriple(x, r))

\* createRelations: the graph handed to saveGraph.
createRelations(graph, relations) ==
    KnowledgeGraph(graph.entities, graph.relations \o NewRelations(graph, relations))

\* Mutant of deleteEntities: the cascade removes outgoing relations only.
deleteEntities_NoIncoming(graph, entityNames) ==
    KnowledgeGraph(
        SelectSeq(graph.entities, LAMBDA e : e.name \notin Range(entityNames)),
        SelectSeq(graph.relations, LAMBDA r : r.from \notin Range(entityNames)))

\* deleteEntities: the graph handed to saveGraph.
deleteEntities(graph, entityNames) ==
    KnowledgeGraph(
        SelectSeq(graph.entities, LAMBDA e : e.name \notin Range(entityNames)),
        SelectSeq(graph.relations,
                  LAMBDA r : r.from \notin Range(entityNames)
                             /\ r.to \notin Range(entityNames)))

\* deleteRelations: the graph handed to saveGraph.
deleteRelations(graph, relations) ==
    KnowledgeGraph(
        graph.entities,
        SelectSeq(graph.relations,
                  LAMBDA r : ~\E d \in Range(relations) : SameTriple(r, d)))

----------------------------------------------------------------------------
(* Sequential use of one manager: every call completes before the next     *)
(* starts.  last records the call, the graph it loaded and what it returned.*)

NoOp == [op |-> "none"]
NoProcs == <<>>

EntityInputs ==
    {Entity(n, t, 1, MaxImportance) : n \in Names, t \in Threads}

\* Relations between the two names in both directions, and one from "A" to
\* itself (valid as soon as "A" alone exists).
RelationInputs ==
    {Relation(ft[1], ft[2], rt, th) :
        ft \in {<<"A", "B">>, <<"B", "A">>, <<"A", "A">>}, rt \in RelationTypes,
        th \in Threads}

CreateEntities ==
    \E entities \in SeqsOf(EntityInputs, 0, MaxBatch) :
        LET graph == Persisted(files) IN
        /\ Len(graph.entities) + Len(NewEntities(graph, entities)) <= MaxStore
        /\ files' = saveGraph(files, createEntities(graph, entities))
        /\ last' = [op |-> "createEntities", entities |-> entities,
                    before |-> graph, returned |-> NewEntities(graph, entities)]
        /\ UNCHANGED procs

CreateRelations ==
    \E relations \in SeqsOf(RelationInputs, 0, MaxBatch) :
        LET graph == Persisted(files) IN
        /\ Len(graph.relations) + Len(NewRelations(graph, relations)) <= MaxRelations
        /\ files' = saveGraph(files, createRelations(graph, relations))
        /\ last' = [op |-> "createRelations", relations |-> relations,
                    before |-> graph, returned |-> NewRelations(graph, relations)]
        /\ UNCHANGED procs

DeleteEntities ==
    \E entityNames \in SeqsOf(Names, 0, MaxBatch) :
        LET graph == Persisted(files) IN
        /\ files' = saveGraph(files, deleteEntities(graph, entityNames))
        /\ last' = [op |-> "deleteEntities", entityNames |-> entityNames,
                    before |-> graph]
        /\ UNCHANGED procs

DeleteRelations ==
    \E relations \in SeqsOf(RelationInputs, 0, 1) :
        LET graph == Persisted(files) IN
        /\ files' = saveGraph(files, deleteRelations(graph, relations))
        /\ last' = [op |-> "deleteRelations", relations |-> relations,
                    before |-> graph]
        /\ UNCHANGED procs

Init ==
    /\ files = <<>>
    /\ last = NoOp
    /\ procs = NoProcs

Next ==
    \/ CreateEntities
    \/ CreateRelations
    \/ DeleteEntities
    \/ DeleteRelations

Spec == Init /\ [][Next]_vars

----------------------------------------------------------------------------
(* Claims about the sequential mutation operations. *)

NoTwoEntitiesSameName(graph) ==
    \A i, j \in DOMAIN graph.entities :
        i # j => graph.entities[i].name # graph.entities[j].name

NoTwoRelationsSameTriple(graph) ==
    \A i, j \in DOMAIN graph.relations :
        i # j => ~SameTriple(graph.relations[i], graph.relations[j])

\* The number of indices of s that hold x.
Count(s, x) == Cardinality({i \in DOMAIN s : s[i] = x})

\* s and t hold the same elements the same number of times.
SameBag(s, t) ==
    /\ Len(s) = Len(t)
    /\ \A x \in Range(s) \cup Range(t) : Count(s, x) = Count(t, x)

\* C1: starting from an empty store, after any sequence of createEntities
\* calls (any input lists, a list naming one entity twice included) the
\* persisted graph never holds two entities with the same name.
C1_EntityNamesUnique == NoTwoEntitiesSameName(Persisted(files))

\* C2: createRelations persists and returns no relation whose from or to is
\* not the name of a loaded entity; the relations it returns are exactly what
\* it adds to the store; every valid relation of the list is in the store
\* afterwards; and the call completes.
C2_CreateRelationsValid ==
    last.op = "createRelations" =>
        LET names == EntityNames(last.before)
            after == Persisted(files)
            Dangling(r) == r.from \notin names \/ r.to \notin names
        IN  /\ \A r \in Range(last.returned) : ~Dangling(r)
            /\ \A r \in Range(last.relations) :
                   Dangling(r) =>
                       /\ r \notin Range(last.returned)
                       /\ Count(after.relations, r) = Count(last.before.relations, r)
            /\ \A r \in Range(last.relations) :
                   ~Dangling(r) => \E x \in Range(after.relations) : SameTriple(x, r)
            /\ SameBag(after.relations, last.before.relations \o last.returned)
            /\ SameBag(after.entities, last.before.entities)

\* C2 witness: a createRelations call whose list held a relation with a
\* missing endpoint and a relation that was added.
C2_Witness ==
    /\ last.op = "createRelations"
    /\ \E r \in Range(last.relations) :
           r.from \notin EntityNames(last.before) \/ r.to \notin EntityNames(last.before)
    /\ Len(last.returned) > 0

\* C3: after any sequence of createRelations calls (any input lists, a list
\* repeating a triple included) the persisted graph never holds two relations
\* with the same (from, to, relationType).
C3_RelationTriplesUnique == NoTwoRelationsSameTriple(Persisted(files))

\* C4: after deleteEntities(names) no persisted entity has a name in names and
\* no persisted relation, of any thread, has from or to in names.
C4_DeleteEntitiesCascades ==
    last.op = "deleteEntities" =>
        LET after == Persisted(files)
            names == Range(last.entityNames)
        IN  /\ \A e \in Range(after.entities) : e.name \notin names
            /\ \A r \in Range(after.relations) :
                   r.from \notin names /\ r.to \notin names

\* C4 witness: a deleteEntities call that removed an entity of one thread and
\* a relation to it authored under another thread.
C4_Witness ==
    /\ last.op = "deleteEntities"
    /\ \E e \in Range(last.before.entities) :
           /\ e.name \in Range(last.entityNames)
           /\ \E r \in Range(last.before.relations) :
                  /\ r.to = e.name
                  /\ r.from # e.name
                  /\ r.agentThreadId # e.agentThreadId

----------------------------------------------------------------------------
(* The storage adapter on its own: saveGraph of arbitrary graphs, each     *)
(* followed by the load a reader would do.                                 *)

Observation(content) ==
    [id |-> "obs-1", content |-> content, timestamp |-> 1, version |-> 1,
     agentThreadId |-> "t1", confidence |-> MaxImportance,
     importance |-> MaxImportance]

\* Entities handed to saveGraph: valid ones, with and without versioned
\* observations and with importance 0, and one with an empty name.
StoreEntityInputs ==
    { Entity("A", "t1", 1, 0),
      [Entity("A", "t1", 1, MaxImportance) EXCEPT
          !.observations = <<"fact">>,
          !.observationsV2 = Some(<<Observation("fact")>>)],
      Entity("B", "t2", MaxTime, MaxImportance),
      Entity("", "t1", 1, MaxImportance) }

\* Relations handed to saveGraph: valid ones and one with an empty type.
StoreRelationInputs ==
    { Relation("A", "B", "knows", "t1"),
      Relation("A", "B", "knows", "t2"),
      Relation("A", "B", "", "t2") }

StoreGraphs ==
    {KnowledgeGraph(es, rs) :
        es \in SeqsOf(StoreEntityInputs, 0, MaxBatch),
        rs \in SeqsOf(StoreRelationInputs, 0, 1)}

SaveGraph ==
    \E graph \in StoreGraphs :
        /\ files' = saveGraph(files, graph)
        /\ last' = [op |-> "saveGraph", graph |-> graph, dirBefore |-> DOMAIN files]
        /\ UNCHANGED procs

NextStore == SaveGraph

SpecStore == Init /\ [][NextStore]_vars

\* The records the load path accepts: every required field present.
ValidEntity(e) ==
    /\ e.name # ""
    /\ e.entityType # ""
    /\ e.agentThreadId # ""
    /\ e.timestamp # 0
    /\ IsNumber(e.confidence)
    /\ IsNumber(e.importance)

ValidRelation(r) ==
    /\ r.from # ""
    /\ r.to # ""
    /\ r.relationType # ""
    /\ r.agentThreadId # ""
    /\ r.timestamp # 0
    /\ IsNumber(r.confidence)
    /\ IsNumber(r.importance)

ValidGraph(graph) ==
    /\ \A e \in Range(graph.entities) : ValidEntity(e)
    /\ \A r \in Range(graph.relations) : ValidRelation(r)

\* C7: for a graph of valid records, saveGraph followed by loadGraph returns
\* the same entities and relations, field by field, up to ordering.
C7_SaveLoadRoundTrip ==
    (last.op = "saveGraph" /\ ValidGraph(last.graph)) =>
        /\ loadGraph(files).ok
        /\ SameBag(Persisted(files).entities, last.graph.entities)
        /\ SameBag(Persisted(files).relations, last.graph.relations)

\* C7 witness: a saved valid graph with entities of two threads, versioned
\* observations and a relation.
C7_Witness ==
    /\ last.op = "saveGraph"
    /\ ValidGraph(last.graph)
    /\ Cardinality({e.agentThreadId : e \in Range(last.graph.entities)}) = 2
    /\ \E e \in Range(last.graph.entities) : e.observationsV2 # Undefined
    /\ Len(last.graph.relations) = 1

----------------------------------------------------------------------------
(* Loading thread files of arbitrary content.                              *)

MaxLines == 2    \* longest thread file, in lines

\* Lines of every shape the reduce of loadGraphFromFile tells apart.
LineInputs ==
    { [json |-> "blank"], [json |-> "invalid"], [json |-> "null"],
      [json |-> "value"],
      [json |-> "object", type |-> "comment"],
      EntityLine(Entity("A", "t1", 1, 0)),
      [EntityLine(Entity("A", "t1", 1, 0)) EXCEPT !.name = ""],
      [EntityLine(Entity("A", "t1", 1, 0)) EXCEPT !.observations = Undefined],
      [EntityLine(Entity("A", "t1", 1, 0)) EXCEPT !.importance = NotANumber],
      RelationLine(Relation("A", "B", "knows", "t1")),
      [RelationLine(Relation("A", "B", "knows", "t1")) EXCEPT !.to = ""],
      [RelationLine(Relation("A", "B", "knows", "t1")) EXCEPT !.confidence = NotANumber] }

\* Directories of one or two thread files.
DirInputs ==
    {(getThreadFilePath("t1") :> l1) : l1 \in SeqsOf(LineInputs, 0, MaxLines)}
    \cup
    {(getThreadFilePath("t1") :> l1) @@ (getThreadFilePath("t2") :> <<l2>>) :
        l1 \in SeqsOf(LineInputs, 0, MaxLines),
        l2 \in {[json |-> "null"], EntityLine(Entity("B", "t2", 1, 0))}}

InitLoad ==
    /\ files \in DirInputs
    /\ last = NoOp
    /\ procs = NoProcs

\* readGraph: the load, with its outcome recorded.
ReadGraph ==
    /\ last' = [op |-> "readGraph", ok |-> loadGraph(files).ok,
                returned |-> IF loadGraph(files).ok THEN Persisted(files)
                             ELSE EmptyGraph]
    /\ UNCHANGED <<files, procs>>

NextLoad == ReadGraph

SpecLoad == InitLoad /\ [][NextLoad]_vars

\* The lines of all thread files of a directory, file after file.
AllLines(dir) ==
    LET fs == SetToSeq({f \in DOMAIN dir : IsThreadFile(f)})
        Cat[i \in 0..Len(fs)] == IF i = 0 THEN <<>> ELSE Cat[i - 1] \o dir[fs[i]]
    IN  Cat[Len(fs)]

IsEntityLine(l) == l.json = "object" /\ l.type = "entity"
IsRelationLine(l) == l.json = "object" /\ l.type = "relation"

\* A complete entity line: every required field present and numeric fields numbers.
CompleteEntityLine(l) ==
    /\ IsEntityLine(l)
    /\ l.name # "" /\ l.entityType # "" /\ l.observations # Undefined
    /\ l.agentThreadId # "" /\ l.timestamp # 0
    /\ l.confidence # NotANumber /\ l.importance # NotANumber

CompleteRelationLine(l) ==
    /\ IsRelationLine(l)
    /\ l.from # "" /\ l.to # "" /\ l.relationType # ""
    /\ l.agentThreadId # "" /\ l.timestamp # 0
    /\ l.confidence # NotANumber /\ l.importance # NotANumber

\* C9: loading never fails because of the content of a thread file; the lines
\* that are not JSON or are incomplete are skipped, and every complete entity
\* and relation line of every file is returned with its fields unchanged.
C9_LoadSkipsBadLines ==
    last.op = "readGraph" =>
        LET complete == SelectSeq(AllLines(files),
                                  LAMBDA l : l.json = "object" /\ CompleteEntityLine(l))
            completeR == SelectSeq(AllLines(files),
                                   LAMBDA l : l.json = "object" /\ CompleteRelationLine(l))
        IN  /\ last.ok
            /\ Len(last.returned.entities) = Len(complete)
            /\ \A i \in DOMAIN complete :
                   LET e == last.returned.entities[i] l == complete[i] IN
                   /\ e.name = l.name /\ e.entityType = l.entityType
                   /\ e.observations = l.observations[1]
                   /\ e.observationsV2 = l.observationsV2
                   /\ e.agentThreadId = l.agentThreadId
                   /\ e.timestamp = l.timestamp
                   /\ e.confidence = l.confidence /\ e.importance = l.importance
            /\ Len(last.returned.relations) = Len(completeR)
            /\ \A i \in DOMAIN completeR :
                   LET r == last.returned.relations[i] l == completeR[i] IN
                   /\ r.from = l.from /\ r.to = l.to
                   /\ r.relationType = l.relationType
                   /\ r.agentThreadId = l.agentThreadId
                   /\ r.timestamp = l.timestamp
                   /\ r.confidence = l.confidence /\ r.importance = l.importance

\* C9 without its first part: when the load does not fail, it returns exactly
\* the complete lines.  (The load fails on a line holding the JSON value null.)
C9_SkipsWhenLoadSucceeds ==
    (last.op = "readGraph" /\ ~last.ok) \/ C9_LoadSkipsBadLines

----------------------------------------------------------------------------
(* Pruning: KnowledgeGraphManager.pruneMemory (index.ts) and pruneMemory of *)
(* lib/maintenance/memory-pruner.ts.  An option is Undefined or Some(v).    *)
(* One prune is applied to each store.                                      *)

\* The comparator of both sorts: importance descending, then timestamp descending.
\* TRUE when a must come before b.
Before(a, b) ==
    IF a.importance # b.importance THEN a.importance > b.importance
    ELSE a.timestamp > b.timestamp

\* Array.prototype.sort with that comparator (stable): insertion of x after
\* every element that does not come after it.
RECURSIVE InsertSorted(_, _)
InsertSorted(sorted, x) ==
    IF sorted = <<>> THEN <<x>>
    ELSE IF Before(x, Head(sorted)) THEN <<x>> \o sorted
    ELSE <<Head(sorted)>> \o InsertSorted(Tail(sorted), x)

RECURSIVE SortEntities(_)
SortEntities(es) ==
    IF es = <<>> THEN <<>>
    ELSE InsertSorted(SortEntities(SubSeq(es, 1, Len(es) - 1)), es[Len(es)])

\* slice(0, n)
Slice(s, n) == SubSeq(s, 1, IF n < Len(s) THEN n ELSE Len(s))

\* The olderThan and importanceLessThan filters, the same in both variants.
FilterEntities(entities, options) ==
    LET byAge ==
            IF options.olderThan # Undefined /\ options.olderThan[1] # 0
            THEN SelectSeq(entities, LAMBDA e : e.timestamp >= options.olderThan[1])
            ELSE entities
    IN  IF options.importanceLessThan # Undefined
        THEN SelectSeq(byAge, LAMBDA e : e.importance >= options.importanceLessThan[1])
        ELSE byAge

\* options.keepMinEntities && entitiesToKeep.length < options.keepMinEntities
NeedsMore(kept, options) ==
    /\ options.keepMinEntities # Undefined
    /\ options.keepMinEntities[1] # 0
    /\ Len(kept) < options.keepMinEntities[1]

\* index.ts: the entities kept.  Short of the minimum, the filtered entities
\* are sorted and the first min(keepMinEntities, length) of them are kept.
EntitiesToKeep(graph, options) ==
    LET kept == FilterEntities(graph.entities, options) IN
    IF NeedsMore(kept, options)
    THEN Slice(SortEntities(kept), options.keepMinEntities[1])
    ELSE kept

\* memory-pruner.ts: the entities kept.  Short of the minimum, the loaded
\* entities whose name is not kept are sorted and the first needed are added.
EntitiesToKeepLib(graph, options) ==
    LET kept == FilterEntities(graph.entities, options) IN
    IF NeedsMore(kept, options)
    THEN LET keptNames == {e.name : e \in Range(kept)}
             candidates == SortEntities(
                 SelectSeq(graph.entities, LAMBDA e : e.name \notin keptNames))
             needed == options.keepMinEntities[1] - Len(kept)
         IN  kept \o Slice(candidates, IF needed > 0 THEN needed ELSE 0)
    ELSE kept

\* Mutant of RelationsToKeep: only the from endpoint is looked up.
RelationsToKeep_FromOnly(graph, kept) ==
    SelectSeq(graph.relations, LAMBDA r : r.from \in {e.name : e \in Range(kept)})

\* The relations whose endpoints are both names of kept entities.
RelationsToKeep(graph, kept) ==
    SelectSeq(graph.relations,
              LAMBDA r : /\ r.from \in {e.name : e \in Range(kept)}
                         /\ r.to \in {e.name : e \in Range(kept)})

\* Mutant of RemovedCount: the count of the filtered-out entities, before backfill.
RemovedCount_BeforeBackfill(graph, kept, options) ==
    Len(graph.entities) - Len(FilterEntities(graph.entities, options))

\* removedEntities: initialEntityCount - entitiesToKeep.length
RemovedCount(graph, kept, options) == Len(graph.entities) - Len(kept)

\* The value returned by either variant.
PruneResult(graph, kept, options) ==
    [removedEntities |-> RemovedCount(graph, kept, options),
     removedRelations |-> Len(graph.relations) - Len(RelationsToKeep(graph, kept))]

PruneNames == <<"A", "B", "C", "D", "E">>
MaxPruned == 3     \* most entities in a store that is pruned

PruneOptions ==
    [olderThan : {Undefined} \cup {Some(t) : t \in 1..MaxTime},
     importanceLessThan : {Undefined} \cup {Some(i) : i \in 0..MaxImportance},
     keepMinEntities : {Undefined} \cup {Some(k) : k \in 0..MaxPruned}]

\* Stores built by createEntities and createRelations from an empty directory:
\* up to MaxPruned entities of any importance and timestamp, in two threads,
\* and up to one relation between two of them.  The names are distinct, or
\* the second entity repeats the name of the first (one createEntities call
\* whose list named it twice).
PruneEntityLists ==
    UNION {{[i \in 1..n |-> Entity(PruneNames[IF i = 2 THEN second ELSE i],
                                    IF i = 2 THEN "t2" ELSE "t1", ts[i], imp[i])] :
               ts \in [1..n -> 1..MaxTime], imp \in [1..n -> 0..MaxImportance],
               second \in 1..2} :
           n \in 0..MaxPruned}

PruneRelationLists ==
    {<<>>, <<Relation("A", "B", "knows", "t2")>>, <<Relation("C", "A", "knows", "t1")>>,
     <<Relation("A", "B", "knows", "t2"), Relation("C", "A", "knows", "t1")>>}

InitPrune ==
    /\ \E es \in PruneEntityLists, rs \in PruneRelationLists :
           files = saveGraph(<<>>, createRelations(createEntities(EmptyGraph, es), rs))
    /\ last = NoOp
    /\ procs = NoProcs

PruneMemory ==
    \E options \in PruneOptions :
        LET graph == Persisted(files)
            kept == EntitiesToKeep(graph, options)
        IN  /\ last = NoOp
            /\ files' = saveGraph(files,
                            KnowledgeGraph(kept, RelationsToKeep(graph, kept)))
            /\ last' = [op |-> "pruneMemory", variant |-> "index", options |-> options,
                        before |-> graph, returned |-> PruneResult(graph, kept, options)]
            /\ UNCHANGED procs

PruneMemoryLib ==
    \E options \in PruneOptions :
        LET graph == Persisted(files)
            kept == EntitiesToKeepLib(graph, options)
        IN  /\ last = NoOp
            /\ files' = saveGraph(files,
                            KnowledgeGraph(kept, RelationsToKeep(graph, kept)))
            /\ last' = [op |-> "pruneMemory", variant |-> "lib", options |-> options,
                        before |-> graph, returned |-> PruneResult(graph, kept, options)]
            /\ UNCHANGED procs

\* Mutant of pruneMemoryInThread: the entities of the thread are taken
\* from the whole graph.
pruneMemoryInThread_AllThreads(graph, threadId, options) ==
    LET entitiesToKeep == EntitiesToKeepLib(graph, options)
        relationsToKeep == RelationsToKeep(graph, entitiesToKeep)
    IN  [graph |-> KnowledgeGraph(entitiesToKeep, relationsToKeep),
         returned |-> [removedEntities |-> Len(graph.entities) - Len(entitiesToKeep),
                       removedRelations |->
                           Len(graph.relations) - Len(relationsToKeep)]]

\* pruneMemory(storage, threadId, options): the pruning of the lib function
\* applied to the entities of the thread; entities of other threads stay,
\* relations of the thread that name a removed entity go.
pruneMemoryInThread(graph, threadId, options) ==
    LET threadEntities ==
            SelectSeq(graph.entities, LAMBDA e : e.agentThreadId = threadId)
        threadEntityNames == {e.name : e \in Range(threadEntities)}
        initialRelationCount ==
            Len(SelectSeq(graph.relations,
                    LAMBDA r : /\ r.agentThreadId = threadId
                               /\ r.from \in threadEntityNames
                               /\ r.to \in threadEntityNames))
        entitiesToKeep ==
            EntitiesToKeepLib(KnowledgeGraph(threadEntities, graph.relations), options)
        keptEntityNames == {e.name : e \in Range(entitiesToKeep)}
        removedEntityNames == threadEntityNames \ keptEntityNames
        entities == SelectSeq(graph.entities,
                        LAMBDA e : e.agentThreadId # threadId \/ e.name \in keptEntityNames)
        relations == SelectSeq(graph.relations,
                         LAMBDA r : ~(/\ r.agentThreadId = threadId
                                      /\ (r.from \in removedEntityNames
                                          \/ r.to \in removedEntityNames)))
    IN  [graph |-> KnowledgeGraph(entities, relations),
         returned |->
             [removedEntities |-> Len(threadEntities) - Len(entitiesToKeep),
              removedRelations |->
                  initialRelationCount
                      - Len(SelectSeq(relations,
                                LAMBDA r : /\ r.agentThreadId = threadId
                                           /\ r.from \in keptEntityNames
                                           /\ r.to \in keptEntityNames))]]

PruneMemoryInThread ==
    \E threadId \in Threads, options \in PruneOptions :
        LET graph == Persisted(files)
            done == pruneMemoryInThread(graph, threadId, options)
        IN  /\ last = NoOp
            /\ files' = saveGraph(files, done.graph)
            /\ last' = [op |-> "pruneMemoryInThread", threadId |-> threadId,
                        options |-> options, before |-> graph,
                        returned |-> done.returned]
            /\ UNCHANGED procs

NextPrune == PruneMemory \/ PruneMemoryLib \/ PruneMemoryInThread

SpecPrune == InitPrune /\ [][NextPrune]_vars

\* C10: the global pruneMemory returns removedEntities equal to the number of
\* entities persisted before the call minus the number persisted after it.
C10_PruneConservation ==
    last.op = "pruneMemory" =>
        last.returned.removedEntities + Len(Persisted(files).entities)
            = Len(last.before.entities)

\* C10 witness: a prune, of each variant, that removed some entities and kept others.
C10_Witness ==
    /\ last.op = "pruneMemory"
    /\ last.variant = "lib"
    /\ last.returned.removedEntities > 0
    /\ Len(Persisted(files).entities) > 0
    /\ Len(FilterEntities(last.before.entities, last.options))
           < Len(Persisted(files).entities)

\* The smaller of two numbers.
Min(a, b) == IF a < b THEN a ELSE b

\* TRUE when the last step was a prune of the given variant with keepMinEntities set.
PrunedWithMinimum(variant) ==
    /\ last.op = "pruneMemory"
    /\ last.variant = variant
    /\ last.options.keepMinEntities # Undefined

\* C11: pruneMemory of lib/maintenance/memory-pruner.ts called with
\* keepMinEntities = k leaves at least min(k, number of entities before the
\* call) entities persisted, whatever the two filters removed.
C11_LibKeepsMinimum ==
    PrunedWithMinimum("lib") =>
        Len(Persisted(files).entities)
            >= Min(last.options.keepMinEntities[1], Len(last.before.entities))

\* C11 on the stores in which no two entities share a name: there the
\* minimum is kept.  (The backfill picks its candidates by name, so an
\* entity that shares its name with a filter survivor is never restored.)
C11_LibKeepsMinimumUniqueNames ==
    (PrunedWithMinimum("lib") /\ NoTwoEntitiesSameName(last.before))
        => C11_LibKeepsMinimum

\* C12: KnowledgeGraphManager.pruneMemory of index.ts keeps at least
\* min(keepMinEntities, number of entities before the call) entities,
\* whatever the two filters removed.
C12_IndexKeepsMinimum ==
    PrunedWithMinimum("index") =>
        Len(Persisted(files).entities)
            >= Min(last.options.keepMinEntities[1], Len(last.before.entities))

\* The entities of the store before the prune that passed both filters.
Survivors == FilterEntities(last.before.entities, last.options)

\* The entities that the prune removed: those with fewer copies after than before.
StayRemoved ==
    {e \in Range(last.before.entities) :
        Count(Persisted(files).entities, e) < Count(last.before.entities, e)}

\* The entities persisted after the prune beyond the filter survivors.
Restored ==
    {e \in Range(Persisted(files).entities) :
        Count(Persisted(files).entities, e) > Count(Survivors, e)}

\* C13: when pruneMemory of memory-pruner.ts backfills, every filter survivor
\* stays persisted, and no entity that stays removed has a higher importance,
\* or an equal importance and a later timestamp, than a restored entity.
C13_BackfillOrder ==
    (last.op = "pruneMemory" /\ last.variant = "lib") =>
        /\ \A e \in Range(Survivors) :
               Count(Persisted(files).entities, e) >= Count(Survivors, e)
        /\ \A removed \in StayRemoved, restored \in Restored :
               ~Before(removed, restored)

\* C13 on the stores in which no two entities share a name.
C13_BackfillOrderUniqueNames ==
    (last.op = "pruneMemory" /\ NoTwoEntitiesSameName(last.before))
        => C13_BackfillOrder

\* C14: after the global pruneMemory (either variant) the persisted relations
\* are exactly the relations persisted before whose from and to both name a
\* persisted entity, in their order.
C14_PruneRelations ==
    last.op = "pruneMemory" =>
        LET after == Persisted(files) IN
        after.relations =
            SelectSeq(last.before.relations,
                      LAMBDA r : /\ r.from \in EntityNames(after)
                                 /\ r.to \in EntityNames(after))

\* C14 witness: a prune that removed an entity, dropped the relation that
\* named it and kept a relation between two survivors.
C14_Witness ==
    /\ last.op = "pruneMemory"
    /\ last.returned.removedEntities > 0
    /\ Len(last.before.relations) = 2
    /\ Len(Persisted(files).relations) = 1

----------------------------------------------------------------------------
(* Queries: findRelationPath and getContext of KnowledgeGraphManager        *)
(* (index.ts), and the thread-scoped reads of lib/ (getContext, readGraph,  *)
(* listEntities, getEntityNamesInThread).  One query is applied to each     *)
(* store; a query leaves the directory as it is.                            *)

\* The relations found for the entity taken from the queue, in the order the
\* two loops visit them: outgoing = relations.filter(r => r.from === entity)
\* leading to rel.to, then incoming = relations.filter(r => r.to === entity)
\* leading to rel.from.
Outgoing(graph, entity) ==
    LET rels == SelectSeq(graph.relations, LAMBDA r : r.from = entity)
    IN  [i \in DOMAIN rels |-> [rel |-> rels[i], next |-> rels[i].to]]

Incoming(graph, entity) ==
    LET rels == SelectSeq(graph.relations, LAMBDA r : r.to = entity)
    IN  [i \in DOMAIN rels |-> [rel |-> rels[i], next |-> rels[i].from]]

\* Mutant of Connected: only the outgoing relations are followed.
Connected_OutgoingOnly(graph, entity) == Outgoing(graph, entity)

Connected(graph, entity) == Outgoing(graph, entity) \o Incoming(graph, entity)

PathNotFound == [found |-> FALSE, path |-> <<>>, relations |-> <<>>]

\* The two for loops over the relations of current: return at the first one
\* that leads to the target, queue every neighbour not visited yet.
RECURSIVE ScanRelations(_, _, _, _, _)
ScanRelations(edges, current, to, queue, visited) ==
    IF edges = <<>>
    THEN [done |-> FALSE, queue |-> queue, visited |-> visited]
    ELSE LET e == Head(edges)
             reached == [entity |-> e.next,
                         path |-> Append(current.path, e.next),
                         relations |-> Append(current.relations, e.rel)]
         IN  IF e.next = to
             THEN [done |-> TRUE,
                   result |-> [found |-> TRUE, path |-> reached.path,
                               relations |-> reached.relations]]
             ELSE IF e.next \notin visited
             THEN ScanRelations(Tail(edges), current, to,
                                Append(queue, reached), visited \cup {e.next})
             ELSE ScanRelations(Tail(edges), current, to, queue, visited)

\* while (queue.length > 0): shift, skip an entry whose path is longer than
\* maxDepth, otherwise scan its relations.
RECURSIVE SearchQueue(_, _, _, _, _)
SearchQueue(graph, to, maxDepth, queue, visited) ==
    IF queue = <<>> THEN PathNotFound
    ELSE LET current == Head(queue) IN
         IF Len(current.path) > maxDepth
         THEN SearchQueue(graph, to, maxDepth, Tail(queue), visited)
         ELSE LET scan == ScanRelations(Connected(graph, current.entity), current,
                                        to, Tail(queue), visited)
              IN  IF scan.done THEN scan.result
                  ELSE SearchQueue(graph, to, maxDepth, scan.queue, scan.visited)

\* Mutant of findRelationPath: no early return when from equals to.
findRelationPath_NoSelfCheck(graph, from, to, maxDepth) ==
    SearchQueue(graph, to, maxDepth,
                <<[entity |-> from, path |-> <<from>>, relations |-> <<>>]>>,
                {from})

findRelationPath(graph, from, to, maxDepth) ==
    IF from = to
    THEN [found |-> TRUE, path |-> <<from>>, relations |-> <<>>]
    ELSE SearchQueue(graph, to, maxDepth,
                     <<[entity |-> from, path |-> <<from>>, relations |-> <<>>]>>,
                     {from})

\* Mutant of ExpandRound: only relations leaving a name of the set are followed.
ExpandRound_FromOnly(relations, names) ==
    names \cup {r.to : r \in {x \in Range(relations) : x.from \in names}}

\* One pass of "for (const entityName of currentEntities)": both endpoints of
\* every relation that has entityName as from or to join the set.
ExpandRound(relations, names) ==
    names \cup UNION {{r.from, r.to} :
                         r \in {x \in Range(relations) : x.from \in names \/ x.to \in names}}

\* for (let d = 0; d < depth; d++)
RECURSIVE Expand(_, _, _, _)
Expand(relations, names, d, depth) ==
    IF d < depth THEN Expand(relations, ExpandRound(relations, names), d + 1, depth)
    ELSE names

\* The graph returned by both getContext variants from the entities and
\* relations they work on.
ContextOf(entities, expandOver, relations, entityNames, depth) ==
    LET contextEntityNames == Expand(expandOver, Range(entityNames), 0, depth)
    IN  KnowledgeGraph(
            SelectSeq(entities, LAMBDA e : e.name \in contextEntityNames),
            SelectSeq(relations, LAMBDA r : /\ r.from \in contextEntityNames
                                            /\ r.to \in contextEntityNames))

\* KnowledgeGraphManager.getContext (index.ts).
getContext(graph, entityNames, depth) ==
    ContextOf(graph.entities, graph.relations, graph.relations, entityNames, depth)

InThread(s, threadId) == SelectSeq(s, LAMBDA x : x.agentThreadId = threadId)

\* Mutant of getContextInThread: the expansion follows the relations of all threads.
getContextInThread_AllRelations(graph, entityNames, depth, threadId) ==
    ContextOf(InThread(graph.entities, threadId), graph.relations,
              InThread(graph.relations, threadId), entityNames, depth)

\* getContext of lib/analysis/context-builder.ts.
getContextInThread(graph, entityNames, depth, threadId) ==
    ContextOf(InThread(graph.entities, threadId), InThread(graph.relations, threadId),
              InThread(graph.relations, threadId), entityNames, depth)

\* importance < 0.1 && importance >= minImportance, importance being scaled
\* to 0..MaxImportance.
IsArchived(importance, minImportance) ==
    10 * importance < MaxImportance /\ importance >= minImportance

\* const { status, ...rest } = x; { ...rest, ...(archived ? { status: 'ARCHIVED' } : {}) }
WithStatus(x, archived) ==
    LET rest == [k \in DOMAIN x \ {"status"} |-> x[k]]
    IN  IF archived THEN rest @@ [status |-> "ARCHIVED"] ELSE rest

ObservationImportance(obs, entity) ==
    IF "importance" \in DOMAIN obs THEN obs.importance ELSE entity.importance

\* Mutant of readGraphInThread: the relations are not filtered by thread.
readGraphInThread_AllRelations(graph, threadId, minImportance) ==
    LET filteredEntities ==
            SelectSeq(InThread(graph.entities, threadId),
                      LAMBDA e : e.importance >= minImportance)
    IN  KnowledgeGraph(filteredEntities,
            SelectSeq(graph.relations,
                LAMBDA r : /\ r.from \in {e.name : e \in Range(filteredEntities)}
                           /\ r.to \in {e.name : e \in Range(filteredEntities)}))

\* Mutant of readGraphInThread: the entities are not filtered by importance.
readGraphInThread_AnyImportance(graph, threadId, minImportance) ==
    LET filteredEntities == InThread(graph.entities, threadId)
        filteredEntityNames == {e.name : e \in Range(filteredEntities)}
    IN  KnowledgeGraph(filteredEntities,
            SelectSeq(graph.relations,
                LAMBDA r : /\ r.agentThreadId = threadId
                           /\ r.from \in filteredEntityNames
                           /\ r.to \in filteredEntityNames
                           /\ r.importance >= minImportance))

\* readGraph(storage, threadId, minImportance) of lib/.
readGraphInThread(graph, threadId, minImportance) ==
    LET kept == SelectSeq(InThread(graph.entities, threadId),
                          LAMBDA e : e.importance >= minImportance)
        observationsOf(e) ==
            LET obs == SelectSeq(e.observations,
                           LAMBDA o : ObservationImportance(o, e) >= minImportance)
            IN  [i \in DOMAIN obs |->
                    WithStatus(obs[i],
                        IsArchived(ObservationImportance(obs[i], e), minImportance))]
        filteredEntities ==
            [i \in DOMAIN kept |->
                [WithStatus(kept[i], IsArchived(kept[i].importance, minImportance))
                    EXCEPT !.observations = observationsOf(kept[i])]]
        filteredEntityNames == {e.name : e \in Range(filteredEntities)}
        keptRelations ==
            SelectSeq(graph.relations,
                LAMBDA r : /\ r.agentThreadId = threadId
                           /\ r.from \in filteredEntityNames
                           /\ r.to \in filteredEntityNames
                           /\ r.importance >= minImportance)
    IN  KnowledgeGraph(filteredEntities,
            [i \in DOMAIN keptRelations |->
                WithStatus(keptRelations[i],
                           IsArchived(keptRelations[i].importance, minImportance))])

\* getEntityNamesInThread of lib/queries/entity-queries.ts.
getEntityNamesInThread(graph, threadId) ==
    {e.name : e \in Range(InThread(graph.entities, threadId))}

\* toLowerCase on the names and patterns used here (one letter each).
ToLowerCase(str) ==
    CASE str = "A" -> "a" [] str = "B" -> "b" [] str = "C" -> "c"
      [] str = "D" -> "d" [] str = "T" -> "t" [] OTHER -> str

\* name.includes(pattern) for strings of at most one letter.
Includes(name, pattern) == pattern = "" \/ name = pattern

\* listEntities of lib/queries/entity-queries.ts; the two optional filters
\* apply when given and not the empty string.
listEntities(graph, threadId, entityType, namePattern) ==
    LET inThread == InThread(graph.entities, threadId)
        byType == IF entityType # Undefined /\ entityType[1] # ""
                  THEN SelectSeq(inThread, LAMBDA e : e.entityType = entityType[1])
                  ELSE inThread
        byName == IF namePattern # Undefined /\ namePattern[1] # ""
                  THEN SelectSeq(byType,
                           LAMBDA e : Includes(ToLowerCase(e.name),
                                               ToLowerCase(namePattern[1])))
                  ELSE byType
    IN  [i \in DOMAIN byName |->
            [name |-> byName[i].name, entityType |-> byName[i].entityType]]

\* KnowledgeGraphManager.openNodes (index.ts): the entities whose name is in
\* names and the relations between them.
openNodes(graph, names) ==
    LET filteredEntities ==
            SelectSeq(graph.entities, LAMBDA e : e.name \in Range(names))
        filteredEntityNames == {e.name : e \in Range(filteredEntities)}
    IN  KnowledgeGraph(filteredEntities,
            SelectSeq(graph.relations,
                      LAMBDA r : /\ r.from \in filteredEntityNames
                                 /\ r.to \in filteredEntityNames))

\* openNodes(names, threadId): the same lookup over the entities and
\* relations authored under threadId.
openNodesInThread(graph, names, threadId) ==
    openNodes(KnowledgeGraph(InThread(graph.entities, threadId),
                             InThread(graph.relations, threadId)), names)

MaxDepth == 3            \* largest maxDepth and depth asked for
MaxQueryRelations == 3   \* most relations in a store that is queried

QueryNames == {"A", "B", "C", "D"}

\* Stores built by createEntities and createRelations from an empty
\* directory: A under t1, B, C and D under either thread (C and D may be
\* absent; D has importance 0), possibly a second entity named A under t2 (one createEntities
\* call naming A twice), and up to MaxQueryRelations relations along
\* A-B-C-D and B-D, each authored under either thread.
QueryEntityLists ==
    {[i \in 1..n |-> Entity(PruneNames[i], th[i], 1,
                            IF i = 4 THEN 0 ELSE MaxImportance)]
         \o (IF twice THEN <<Entity("A", "t2", 1, MaxImportance)>> ELSE <<>>) :
         th \in {f \in [1..4 -> Threads] : f[1] = "t1"}, n \in 2..4,
         twice \in BOOLEAN}

QueryRelationInputs ==
    {Relation(ft[1], ft[2], "knows", th) :
        ft \in {<<"A", "B">>, <<"B", "C">>, <<"C", "D">>, <<"B", "D">>},
        th \in Threads}

QueryRelationLists ==
    {SetToSeq(rs) : rs \in {x \in SUBSET QueryRelationInputs :
                                Cardinality(x) <= MaxQueryRelations}}

InitQuery ==
    /\ \E es \in QueryEntityLists, rs \in QueryRelationLists :
           files = saveGraph(<<>>, createRelations(createEntities(EmptyGraph, es), rs))
    /\ last = NoOp
    /\ procs = NoProcs

FindRelationPath ==
    \E from \in QueryNames, to \in QueryNames, maxDepth \in (0 - 1)..MaxDepth :
        /\ last = NoOp
        /\ last' = [op |-> "findRelationPath", from |-> from, to |-> to,
                    maxDepth |-> maxDepth,
                    returned |-> findRelationPath(Persisted(files), from, to, maxDepth)]
        /\ UNCHANGED <<files, procs>>

ContextSeeds ==
    {<<>>, <<"A">>, <<"B">>, <<"C">>, <<"D">>, <<"D", "A">>, <<"Z">>}

GetContext ==
    \E entityNames \in ContextSeeds, depth \in 0..MaxDepth :
        /\ last = NoOp
        /\ last' = [op |-> "getContext", variant |-> "index",
                    entityNames |-> entityNames, depth |-> depth,
                    returned |-> getContext(Persisted(files), entityNames, depth)]
        /\ UNCHANGED <<files, procs>>

GetContextInThread ==
    \E entityNames \in ContextSeeds, depth \in 0..MaxDepth, threadId \in Threads :
        /\ last = NoOp
        /\ last' = [op |-> "getContext", variant |-> "lib",
                    entityNames |-> entityNames, depth |-> depth,
                    threadId |-> threadId,
                    returned |-> getContextInThread(Persisted(files), entityNames,
                                                    depth, threadId)]
        /\ UNCHANGED <<files, procs>>

ReadGraphInThread ==
    \E threadId \in Threads, minImportance \in 0..MaxImportance :
        /\ last = NoOp
        /\ last' = [op |-> "readGraph", threadId |-> threadId,
                    minImportance |-> minImportance,
                    returned |-> readGraphInThread(Persisted(files), threadId,
                                                   minImportance)]
        /\ UNCHANGED <<files, procs>>

\* The default of the parameter minImportance, 0.1, as the least value of the
\* scale it lets through: importance >= 0.1 exactly when importance >= this.
DefaultMinImportance == (MaxImportance + 9) \div 10

\* readGraph(storage, threadId): minImportance takes its default.
ReadGraphOfThread ==
    \E threadId \in Threads :
        /\ last = NoOp
        /\ last' = [op |-> "readGraphOfThread", threadId |-> threadId,
                    returned |-> readGraphInThread(Persisted(files), threadId,
                                                   DefaultMinImportance)]
        /\ UNCHANGED <<files, procs>>

GetEntityNamesInThread ==
    \E threadId \in Threads :
        /\ last = NoOp
        /\ last' = [op |-> "getEntityNamesInThread", threadId |-> threadId,
                    returned |-> getEntityNamesInThread(Persisted(files), threadId)]
        /\ UNCHANGED <<files, procs>>

ListEntities ==
    \E threadId \in Threads, entityType \in {Undefined, Some("T")},
       namePattern \in {Undefined, Some("a"), Some("B")} :
        /\ last = NoOp
        /\ last' = [op |-> "listEntities", threadId |-> threadId,
                    entityType |-> entityType, namePattern |-> namePattern,
                    returned |-> listEntities(Persisted(files), threadId,
                                              entityType, namePattern)]
        /\ UNCHANGED <<files, procs>>

NextQuery ==
    \/ FindRelationPath
    \/ GetContext
    \/ GetContextInThread
    \/ ReadGraphInThread
    \/ ReadGraphOfThread
    \/ GetEntityNamesInThread
    \/ ListEntities

SpecQuery == InitQuery /\ [][NextQuery]_vars

\* TRUE when a and b are the same name or are joined by a chain of at most k
\* of the relations, each taken in either direction.
RECURSIVE Joined(_, _, _, _)
Joined(relations, a, b, k) ==
    \/ a = b
    \/ /\ k > 0
       /\ \E r \in Range(relations) :
              \/ r.from = a /\ Joined(relations, r.to, b, k - 1)
              \/ r.to = a /\ Joined(relations, r.from, b, k - 1)

\* C15: findRelationPath(from, to, maxDepth) returns found = true exactly when
\* from equals to (then with path [from] and no relations) or from and to are
\* joined by a chain of at most maxDepth relations, each usable in either
\* direction; otherwise it returns found = false with an empty path and no
\* relations.
C15_FindRelationPath ==
    last.op = "findRelationPath" =>
        LET r == last.returned IN
        /\ r.found <=> Joined(Persisted(files).relations, last.from, last.to,
                              last.maxDepth)
        /\ last.from = last.to => (r.path = <<last.from>> /\ r.relations = <<>>)
        /\ ~r.found => (r.path = <<>> /\ r.relations = <<>>)

\* C15 witness: a path found over maxDepth relations, one of them taken
\* against its direction, where one relation fewer would not do.
C15_Witness ==
    /\ last.op = "findRelationPath"
    /\ last.returned.found
    /\ Len(last.returned.relations) = last.maxDepth
    /\ last.maxDepth >= 2
    /\ \E i \in DOMAIN last.returned.relations :
           last.returned.relations[i].to = last.returned.path[i]

\* TRUE when name is a seed or is joined to a seed by at most depth of the relations.
NearSeed(relations, seeds, name, depth) ==
    \E seed \in Range(seeds) : Joined(relations, seed, name, depth)

\* C16: getContext(names, depth) of index.ts returns exactly the persisted
\* entities that are a seed or lie within depth relation hops, in either
\* direction, of a seed.
C16_ContextWithinDepth ==
    (last.op = "getContext" /\ last.variant = "index") =>
        LET graph == Persisted(files) IN
        last.returned.entities =
            SelectSeq(graph.entities,
                      LAMBDA e : NearSeed(graph.relations, last.entityNames,
                                          e.name, last.depth))

\* C16 witness: a getContext call that returned an entity depth hops from its
\* seed, depth at least 2, and left out a persisted entity further away.
C16_Witness ==
    /\ last.op = "getContext" /\ last.variant = "index"
    /\ last.depth >= 2
    /\ \E e \in Range(last.returned.entities) :
           ~NearSeed(Persisted(files).relations, last.entityNames, e.name,
                     last.depth - 1)
    /\ Len(last.returned.entities) < Len(Persisted(files).entities)

\* C17: every relation returned by getContext, in the global and in the
\* thread-scoped variant, has its from and its to among the names of the
\* entities returned.
C17_ContextInduced ==
    last.op = "getContext" =>
        \A r \in Range(last.returned.relations) :
            /\ r.from \in EntityNames(last.returned)
            /\ r.to \in EntityNames(last.returned)

\* C17 for the global variant alone.
C17_ContextInducedGlobal ==
    (last.op = "getContext" /\ last.variant = "index") => C17_ContextInduced

\* The reads scoped to a thread.
ScopedRead ==
    \/ last.op \in {"readGraph", "getEntityNamesInThread", "listEntities"}
    \/ last.op = "getContext" /\ last.variant = "lib"

\* The persisted entities authored under the thread of the last read.
OwnEntities == InThread(Persisted(files).entities, last.threadId)

\* C18: a read scoped to a thread returns no entity and no relation authored
\* under another thread.  readGraph and getContext return records that carry
\* their agentThreadId; listEntities returns (name, entityType) pairs, no more
\* of each than the thread holds; getEntityNamesInThread returns names, each
\* the name of an entity of the thread.
C18_ThreadIsolation ==
    ScopedRead =>
        CASE last.op \in {"readGraph", "getContext"} ->
                 /\ \A e \in Range(last.returned.entities) :
                        e.agentThreadId = last.threadId
                 /\ \A r \in Range(last.returned.relations) :
                        r.agentThreadId = last.threadId
          [] last.op = "listEntities" ->
                 \A item \in Range(last.returned) :
                     Count(last.returned, item)
                         <= Cardinality({i \in DOMAIN OwnEntities :
                                /\ OwnEntities[i].name = item.name
                                /\ OwnEntities[i].entityType = item.entityType})
          [] last.op = "getEntityNamesInThread" ->
                 \A name \in last.returned :
                     \E e \in Range(OwnEntities) : e.name = name

\* C18 witness: a readGraph scoped to t2 that returned an entity and a
\* relation of t2 from a store holding an entity of the same name and a
\* relation authored under t1.
C18_Witness ==
    /\ last.op = "readGraph" /\ last.threadId = "t2"
    /\ Len(last.returned.relations) > 0
    /\ \E e \in Range(last.returned.entities),
          other \in Range(Persisted(files).entities) :
           other.name = e.name /\ other.agentThreadId = "t1"
    /\ \E r \in Range(Persisted(files).relations) : r.agentThreadId = "t1"

\* C20: the thread-scoped getContext(names, depth, threadId) returns exactly
\* the entities of the thread that are a seed or within depth hops of a seed
\* along relations authored under threadId: an entity reached only through a
\* relation of another thread is not returned.
C20_ContextStaysInThread ==
    (last.op = "getContext" /\ last.variant = "lib") =>
        LET graph == Persisted(files) IN
        last.returned.entities =
            SelectSeq(InThread(graph.entities, last.threadId),
                      LAMBDA e : NearSeed(InThread(graph.relations, last.threadId),
                                          last.entityNames, e.name, last.depth))

\* C20 witness: a thread-scoped getContext that left out an entity of its own
\* thread, within depth hops of the seed through a relation of another thread.
C20_Witness ==
    /\ last.op = "getContext" /\ last.variant = "lib"
    /\ Len(last.returned.entities) > 0
    /\ \E e \in Range(OwnEntities) :
           /\ e \notin Range(last.returned.entities)
           /\ NearSeed(Persisted(files).relations, last.entityNames, e.name,
                       last.depth)

C21_CreateReturnsAdded ==
    last.op = "createEntities" =>
        LET after == Persisted(files) IN
        /\ SameBag(after.entities, last.before.entities \o last.returned)
        /\ \A e \in Range(last.returned) : e.name \notin EntityNames(last.before)
        /\ \A e \in Range(last.before.entities) :
               Count(after.entities, e) = Count(last.before.entities, e)
        /\ NewEntities(after, last.entities) = <<>>
        /\ saveGraph(files, createEntities(after, last.entities)) = files

\* C21 witness: a createEntities call whose only entity names an entity
\* persisted under another thread; it returns the empty list.
C21_Witness ==
    /\ last.op = "createEntities"
    /\ Len(last.entities) = 1
    /\ last.returned = <<>>
    /\ \E e \in Range(last.before.entities) :
           /\ e.name = last.entities[1].name
           /\ e.agentThreadId # last.entities[1].agentThreadId

----------------------------------------------------------------------------
(* Observations: addObservations, addObservationsV2 and bulkUpdate of       *)
(* KnowledgeGraphManager (index.ts), run one after another on a store       *)
(* holding A (thread t1) and B (thread t2).  A call that throws does so     *)
(* inside the map over its requests, before saveGraph.  The id of a         *)
(* versioned observation (clock and random suffix) is never read by the     *)
(* engine; it is kept as the clock value and the position or one opaque     *)
(* suffix.                                                                  *)

\* graph.entities.find(e => e.name === name): the index of the first entity
\* of that name, 0 when there is none.
FindEntity(entities, name) ==
    IF \E i \in DOMAIN entities : entities[i].name = name
    THEN CHOOSE i \in DOMAIN entities :
             /\ entities[i].name = name
             /\ \A j \in 1..(i - 1) : entities[j].name # name
    ELSE 0

\* Mutant of NewStrings: a string is taken once per list as well.
RECURSIVE OncePerString(_, _)
OncePerString(contents, seen) ==
    IF contents = <<>> THEN <<>>
    ELSE IF Head(contents) \in seen THEN OncePerString(Tail(contents), seen)
    ELSE <<Head(contents)>>
             \o OncePerString(Tail(contents), seen \cup {Head(contents)})

NewStrings_OncePerString(observations, contents) ==
    OncePerString(contents, Range(observations))

\* contents.filter(content => !entity.observations.includes(content))
NewStrings(observations, contents) ==
    SelectSeq(contents, LAMBDA content : content \notin Range(observations))

\* The map of addObservations over its requests; ok = FALSE when a request
\* names no loaded entity (the throw).
RECURSIVE AddObservationsMap(_, _, _)
AddObservationsMap(entities, requests, results) ==
    IF requests = <<>>
    THEN [ok |-> TRUE, entities |-> entities, results |-> results]
    ELSE LET o == Head(requests)
             i == FindEntity(entities, o.entityName)
         IN  IF i = 0
             THEN [ok |-> FALSE, entities |-> entities, results |-> results]
             ELSE LET newObservations == NewStrings(entities[i].observations, o.contents)
                      entity == [entities[i] EXCEPT
                                    !.observations = @ \o newObservations,
                                    !.timestamp = o.timestamp,
                                    !.confidence = o.confidence,
                                    !.importance = o.importance]
                  IN  AddObservationsMap(
                          [entities EXCEPT ![i] = entity], Tail(requests),
                          Append(results, [entityName |-> o.entityName,
                                           addedObservations |-> newObservations]))

\* Mutant of addObservations: a request naming no entity is passed over.
addObservations_SkipMissing(graph, observations) ==
    AddObservationsMap(graph.entities,
        SelectSeq(observations,
                  LAMBDA o : FindEntity(graph.entities, o.entityName) # 0),
        <<>>)

\* Mutant of addObservations: the entity takes the thread of the request.
addObservations_Rethread(graph, observations) ==
    LET done == AddObservationsMap(graph.entities, observations, <<>>) IN
    [done EXCEPT !.entities =
        [i \in DOMAIN done.entities |->
            IF \E o \in Range(observations) : o.entityName = done.entities[i].name
            THEN [done.entities[i] EXCEPT !.agentThreadId =
                     (CHOOSE o \in Range(observations) :
                          o.entityName = done.entities[i].name).agentThreadId]
            ELSE done.entities[i]]]

addObservations(graph, observations) ==
    AddObservationsMap(graph.entities, observations, <<>>)

\* The loop of bulkUpdate over its updates; now is new Date().toISOString().
RECURSIVE BulkUpdateLoop(_, _, _, _)
BulkUpdateLoop(entities, updates, now, result) ==
    IF updates = <<>>
    THEN [entities |-> entities, updated |-> result.updated,
          notFound |-> result.notFound]
    ELSE LET update == Head(updates)
             i == FindEntity(entities, update.entityName)
         IN  IF i = 0
             THEN BulkUpdateLoop(entities, Tail(updates), now,
                      [result EXCEPT !.notFound = Append(@, update.entityName)])
             ELSE LET e == entities[i]
                      entity ==
                          [e EXCEPT
                              !.confidence = IF update.confidence # Undefined
                                             THEN update.confidence[1] ELSE @,
                              !.importance = IF update.importance # Undefined
                                             THEN update.importance[1] ELSE @,
                              !.observations =
                                  IF update.addObservations # Undefined
                                  THEN @ \o NewStrings(e.observations,
                                                       update.addObservations[1])
                                  ELSE @,
                              !.timestamp = now]
                  IN  BulkUpdateLoop([entities EXCEPT ![i] = entity], Tail(updates),
                          now, [result EXCEPT !.updated = @ + 1])

bulkUpdate(graph, updates, now) ==
    BulkUpdateLoop(graph.entities, updates, now, [updated |-> 0, notFound |-> <<>>])

\* Mutant of NewObservation: the version counts the observations written.
NewObservation_Counted(content, o, now, existing) ==
    [id |-> <<"obs", now, "random">>, content |-> content,
     timestamp |-> o.timestamp, version |-> Len(existing) + 1,
     agentThreadId |-> o.agentThreadId, confidence |-> o.confidence,
     importance |-> o.importance]

\* The Observation created for new content; existing is the list it joins.
NewObservation(content, o, now, existing) ==
    [id |-> <<"obs", now, "random">>, content |-> content,
     timestamp |-> o.timestamp, version |-> 1,
     agentThreadId |-> o.agentThreadId, confidence |-> o.confidence,
     importance |-> o.importance]

\* The migration of the legacy strings of an entity without observationsV2.
MigratedObservations(entity, now) ==
    [idx \in DOMAIN entity.observations |->
        [id |-> <<"obs", now, idx - 1>>, content |-> entity.observations[idx],
         timestamp |-> entity.timestamp, version |-> 1,
         agentThreadId |-> entity.agentThreadId,
         confidence |-> entity.confidence, importance |-> entity.importance]]

\* for (const content of o.contents): content found in no versioned
\* observation becomes a new one, mirrored into the legacy list unless there.
RECURSIVE AddContents(_, _, _, _, _, _)
AddContents(contents, o, now, observationsV2, observations, added) ==
    IF contents = <<>>
    THEN [observationsV2 |-> observationsV2, observations |-> observations,
          added |-> added]
    ELSE LET content == Head(contents) IN
         IF \E obs \in Range(observationsV2) : obs.content = content
         THEN AddContents(Tail(contents), o, now, observationsV2, observations, added)
         ELSE LET newObs == NewObservation(content, o, now, observationsV2) IN
              AddContents(Tail(contents), o, now, Append(observationsV2, newObs),
                          IF content \in Range(observations) THEN observations
                          ELSE Append(observations, content),
                          Append(added, newObs))

\* The map of addObservationsV2 over its requests; ok = FALSE on the throw.
RECURSIVE AddObservationsV2Map(_, _, _, _)
AddObservationsV2Map(entities, requests, now, results) ==
    IF requests = <<>>
    THEN [ok |-> TRUE, entities |-> entities, results |-> results]
    ELSE LET o == Head(requests)
             i == FindEntity(entities, o.entityName)
         IN  IF i = 0
             THEN [ok |-> FALSE, entities |-> entities, results |-> results]
             ELSE LET e == entities[i]
                      versioned == IF e.observationsV2 = Undefined
                                   THEN MigratedObservations(e, now)
                                   ELSE e.observationsV2[1]
                      done == AddContents(o.contents, o, now, versioned,
                                          e.observations, <<>>)
                      entity == [e EXCEPT
                                    !.observationsV2 = Some(done.observationsV2),
                                    !.observations = done.observations,
                                    !.timestamp = o.timestamp,
                                    !.confidence = o.confidence,
                                    !.importance = o.importance]
                  IN  AddObservationsV2Map(
                          [entities EXCEPT ![i] = entity], Tail(requests), now,
                          Append(results, [entityName |-> o.entityName,
                                           addedObservations |-> done.added]))

addObservationsV2(graph, observations, now) ==
    AddObservationsV2Map(graph.entities, observations, now, <<>>)

\* sort((a, b) => b.lastModified.localeCompare(a.lastModified)), stable.
RECURSIVE InsertChange(_, _)
InsertChange(sorted, x) ==
    IF sorted = <<>> THEN <<x>>
    ELSE IF x.lastModified > Head(sorted).lastModified THEN <<x>> \o sorted
    ELSE <<Head(sorted)>> \o InsertChange(Tail(sorted), x)

RECURSIVE SortChanges(_)
SortChanges(changes) ==
    IF changes = <<>> THEN <<>>
    ELSE InsertChange(SortChanges(SubSeq(changes, 1, Len(changes) - 1)),
                      changes[Len(changes)])

\* getAnalytics, recent_changes: the entities of the thread, 'updated' when a
\* versioned observation has version > 1, latest first, at most 10.
recent_changes(graph, threadId) ==
    LET entities == InThread(graph.entities, threadId)
        changes ==
            [i \in DOMAIN entities |->
                [entityName |-> entities[i].name,
                 entityType |-> entities[i].entityType,
                 lastModified |-> entities[i].timestamp,
                 changeType |->
                     IF /\ entities[i].observationsV2 # Undefined
                        /\ \E obs \in Range(entities[i].observationsV2[1]) :
                               obs.version > 1
                     THEN "updated" ELSE "created"]]
    IN  Slice(SortChanges(changes), 10)

MaxObservations == 2   \* most observation strings kept in the store

Contents == {"x", "y"}

ObservedNames == {"A", "B", "Z"}   \* "Z" names no entity

\* One request of addObservations and addObservationsV2.
ObservationRequest(entityName, contents) ==
    [entityName |-> entityName, contents |-> contents, agentThreadId |-> "t2",
     timestamp |-> MaxTime, confidence |-> 0, importance |-> 0]

ContentLists == {<<>>, <<"x">>, <<"y">>, <<"x", "x">>}

\* Lists of one request, and lists of two whose first request adds "x" to A.
ObservationRequestLists ==
    {<<ObservationRequest(n, c)>> : n \in ObservedNames, c \in ContentLists}
    \cup {<<ObservationRequest("A", <<"x">>), ObservationRequest(n, <<c>>)>> :
             n \in {"A", "Z"}, c \in Contents}

BulkUpdates ==
    {[entityName |-> n, confidence |-> c, importance |-> c, addObservations |-> a] :
        n \in ObservedNames, c \in {Undefined, Some(0)},
        a \in {Undefined, Some(<<"y", "y">>)}}

\* Lists of one update, and lists of two whose first update names no entity.
BulkUpdateLists ==
    {<<u>> : u \in BulkUpdates}
    \cup {<<u1, u2>> : u1 \in {u \in BulkUpdates : /\ u.entityName = "Z"
                                                     /\ u.confidence = Undefined
                                                     /\ u.addObservations = Undefined},
                       u2 \in {u \in BulkUpdates : /\ u.entityName = "A"
                                                     /\ u.confidence = Undefined}}

\* The guard of the model: the store holds at most MaxObservations strings.
RECURSIVE CountObservations(_)
CountObservations(entities) ==
    IF entities = <<>> THEN 0
    ELSE Len(Head(entities).observations) + CountObservations(Tail(entities))

WithinObservations(entities) == CountObservations(entities) <= MaxObservations

\* A and B created by createEntities, A with no observation or with "x".
InitObs ==
    /\ \E first \in {<<>>, <<"x">>} :
           files = saveGraph(<<>>, createEntities(EmptyGraph,
                       <<[Entity("A", "t1", 1, MaxImportance)
                             EXCEPT !.observations = first],
                         Entity("B", "t2", 1, MaxImportance)>>))
    /\ last = NoOp
    /\ procs = NoProcs

AddObservations ==
    \E observations \in ObservationRequestLists :
        LET graph == Persisted(files)
            done == addObservations(graph, observations)
        IN  /\ WithinObservations(done.entities)
            /\ files' = IF done.ok
                        THEN saveGraph(files, KnowledgeGraph(done.entities,
                                                             graph.relations))
                        ELSE files
            /\ last' = [op |-> "addObservations", observations |-> observations,
                        before |-> graph, threw |-> ~done.ok,
                        returned |-> IF done.ok THEN done.results ELSE <<>>]
            /\ UNCHANGED procs

BulkUpdate ==
    \E updates \in BulkUpdateLists, now \in {MaxTime} :
        LET graph == Persisted(files)
            done == bulkUpdate(graph, updates, now)
        IN  /\ WithinObservations(done.entities)
            /\ files' = saveGraph(files, KnowledgeGraph(done.entities,
                                                        graph.relations))
            /\ last' = [op |-> "bulkUpdate", updates |-> updates,
                        before |-> graph, threw |-> FALSE,
                        returned |-> [updated |-> done.updated,
                                      notFound |-> done.notFound]]
            /\ UNCHANGED procs

AddObservationsV2 ==
    \E observations \in ObservationRequestLists, now \in {MaxTime} :
        LET graph == Persisted(files)
            done == addObservationsV2(graph, observations, now)
        IN  /\ WithinObservations(done.entities)
            /\ files' = IF done.ok
                        THEN saveGraph(files, KnowledgeGraph(done.entities,
                                                             graph.relations))
                        ELSE files
            /\ last' = [op |-> "addObservationsV2", observations |-> observations,
                        before |-> graph, threw |-> ~done.ok,
                        returned |-> IF done.ok THEN done.results ELSE <<>>]
            /\ UNCHANGED procs

NextObs == AddObservations \/ AddObservationsV2 \/ BulkUpdate

SpecObs == InitObs /\ [][NextObs]_vars

\* TRUE when the list holds no string twice.
NoRepeatedString(observations) ==
    \A i \in DOMAIN observations, j \in DOMAIN observations :
        observations[i] = observations[j] => i = j

\* The persisted entity of that name (names are not repeated in these stores).
EntityNamed(graph, name) == graph.entities[FindEntity(graph.entities, name)]

\* C22: when a request of addObservations or addObservationsV2 names an
\* entity that does not exist, the call throws and the persisted graph is
\* what it was before the call, whatever the earlier requests of the list did.
C22_MissingEntityAborts ==
    (/\ last.op \in {"addObservations", "addObservationsV2"}
     /\ \E o \in Range(last.observations) :
            o.entityName \notin EntityNames(last.before))
    => (last.threw /\ Persisted(files) = last.before)

\* C22 witness: a call that threw on its second request after a first
\* request that named A with a string A did not hold.
C22_Witness ==
    /\ last.op \in {"addObservations", "addObservationsV2"}
    /\ last.threw
    /\ Len(last.observations) = 2
    /\ last.observations[1].entityName = "A"
    /\ \E c \in Range(last.observations[1].contents) :
           c \notin Range(EntityNamed(last.before, "A").observations)

\* C23: after addObservations or bulkUpdate, an entity whose observation list
\* held no repeated string still holds none, also when the contents list of
\* the request repeats a string; and a call of one addObservations request
\* reports as added exactly the strings of the request that were not in the
\* list.
C23_ObservationsStayDistinct ==
    (last.op \in {"addObservations", "bulkUpdate"} /\ ~last.threw) =>
        /\ \A e \in Range(last.before.entities) :
               NoRepeatedString(e.observations)
                   => NoRepeatedString(EntityNamed(Persisted(files), e.name).observations)
        /\ (last.op = "addObservations" /\ Len(last.observations) = 1) =>
               Range(last.returned[1].addedObservations)
                   = Range(last.observations[1].contents)
                       \ Range(EntityNamed(last.before,
                                 last.observations[1].entityName).observations)

\* TRUE when no contents list of the last call repeats a string.
DistinctContents ==
    IF last.op = "addObservations"
    THEN \A o \in Range(last.observations) : NoRepeatedString(o.contents)
    ELSE \A u \in Range(last.updates) :
             u.addObservations = Undefined \/ NoRepeatedString(u.addObservations[1])

\* C23 for the calls whose contents lists repeat no string.
C23_DistinctFromDistinctContents ==
    (last.op \in {"addObservations", "bulkUpdate"} /\ DistinctContents)
        => C23_ObservationsStayDistinct

\* C27: every versioned observation persisted for an entity created without
\* observationsV2 has version 1 and no supersedes value, and getAnalytics
\* reports no such entity as updated.
C27_VersionsStayAtOne ==
    /\ \A e \in Range(Persisted(files).entities) :
           e.observationsV2 # Undefined =>
               \A obs \in Range(e.observationsV2[1]) :
                   obs.version = 1 /\ "supersedes" \notin DOMAIN obs
    /\ \A threadId \in Threads :
           \A change \in Range(recent_changes(Persisted(files), threadId)) :
               change.changeType = "created"

\* C27 witness: an entity holding a migrated observation and one created for
\* new content by a later addObservationsV2 call.
C27_Witness ==
    /\ last.op = "addObservationsV2"
    /\ \E e \in Range(Persisted(files).entities) :
           /\ e.observationsV2 # Undefined
           /\ \E m \in Range(e.observationsV2[1]), n \in Range(e.observationsV2[1]) :
                  /\ m.agentThreadId = e.agentThreadId /\ m.timestamp = 1
                  /\ n.agentThreadId # e.agentThreadId
    /\ \E r \in Range(last.returned) : Len(r.addedObservations) > 0
    /\ \E e \in Range(last.before.entities) : e.observationsV2 # Undefined

----------------------------------------------------------------------------
(* Concurrent callers.  Each caller runs one createEntities call on the    *)
(* same manager.  A call is a chain of awaits: the load; then, in          *)
(* saveGraph, one fs.writeFile per thread of the map, all started together  *)
(* (Promise.all) and completing in any order; then the readdir of the      *)
(* cleanup; then one fs.unlink per stale file, again in any order.  Steps   *)
(* of different calls interleave freely; the load is taken as one step and  *)
(* a writeFile replaces the file at once.                                  *)

NProcs == 2    \* concurrent callers

Procs == 1..NProcs

\* The name each caller creates (pairwise distinct) and the names already stored.
NewName == <<"A", "B", "C", "D">>

SeedLists ==
    { <<>>,
      <<Entity("S1", "t1", 1, MaxImportance)>>,
      <<Entity("S2", "t2", 1, MaxImportance)>>,
      <<Entity("S1", "t1", 1, MaxImportance), Entity("S2", "t2", 1, MaxImportance)>> }

InitConc ==
    /\ \E seed \in SeedLists :
           /\ files = saveGraph(<<>>, createEntities(EmptyGraph, seed))
           /\ last = [op |-> "concurrent", seed |-> seed, loadedBeforeSaves |-> TRUE]
    /\ \E threadOf \in [Procs -> Threads] :
           procs = [p \in Procs |->
                       [pc |-> "start",
                        entities |-> <<Entity(NewName[p], threadOf[p], 1, MaxImportance)>>,
                        graph |-> EmptyGraph, returned |-> <<>>,
                        pending |-> {}, stale |-> {}]]

\* A caller has started saving once one of its writes has completed.
HasWritten(q) ==
    \/ procs[q].pc \in {"cleanup", "done"}
    \/ procs[q].pc = "saving" /\ procs[q].pending # ThreadMapKeys(procs[q].graph)

\* createEntities up to the call of saveGraph: load, filter, push.
Load(p) ==
    /\ procs[p].pc = "start"
    /\ LET graph == Persisted(files)
           saved == createEntities(graph, procs[p].entities)
       IN  procs' = [procs EXCEPT ![p] =
                        [@ EXCEPT !.pc = "saving", !.graph = saved,
                                  !.returned = NewEntities(graph, procs[p].entities),
                                  !.pending = ThreadMapKeys(saved)]]
    /\ last' = [last EXCEPT !.loadedBeforeSaves = @ /\ ~\E q \in Procs : HasWritten(q)]
    /\ UNCHANGED files

\* One saveGraphForThread of the Promise.all completes.
WriteThread(p) ==
    /\ procs[p].pc = "saving"
    /\ \E t \in procs[p].pending :
           /\ files' = saveGraphForThread(files, procs[p].graph, t)
           /\ procs' = [procs EXCEPT ![p] = [@ EXCEPT !.pending = @ \ {t}]]
    /\ UNCHANGED last

\* All writes done: the cleanup lists the directory and picks the stale files.
Readdir(p) ==
    /\ procs[p].pc = "saving"
    /\ procs[p].pending = {}
    /\ LET stale == StaleFiles(DOMAIN files, procs[p].graph) IN
       procs' = [procs EXCEPT ![p] =
                    [@ EXCEPT !.pc = IF stale = {} THEN "done" ELSE "cleanup",
                              !.stale = stale]]
    /\ UNCHANGED <<files, last>>

\* One fs.unlink of the cleanup completes; after the last one the call returns.
UnlinkStale(p) ==
    /\ procs[p].pc = "cleanup"
    /\ \E f \in procs[p].stale :
           /\ files' = Unlink(files, f)
           /\ procs' = [procs EXCEPT ![p] =
                           [@ EXCEPT !.stale = @ \ {f},
                                     !.pc = IF procs[p].stale = {f} THEN "done"
                                            ELSE "cleanup"]]
    /\ UNCHANGED last

NextConc ==
    \E p \in Procs :
        \/ Load(p)
        \/ WriteThread(p)
        \/ Readdir(p)
        \/ UnlinkStale(p)

SpecConc == InitConc /\ [][NextConc]_vars

AllDone == \A p \in Procs : procs[p].pc = "done"

\* The entity of caller p is in the persisted graph.
Took(p) == NewName[p] \in EntityNames(Persisted(files))

\* No caller was told of a failure: each was returned its entity as added.
AllReturnedAdded == \A p \in Procs : procs[p].returned = procs[p].entities

SameThread ==
    \A p, q \in Procs :
        procs[p].entities[1].agentThreadId = procs[q].entities[1].agentThreadId

C6_AllConcurrentCreatesPersist ==
    AllDone => \A p \in Procs : Took(p)

----------------------------------------------------------------------------
(* Validation of save_memory: validateObservation of core/validation.ts and *)
(* its copy in KnowledgeGraphManager (index.ts).  A text is the sequence of *)
(* its characters; obs.length is the length of the sequence.                *)

MAX_LENGTH == 150
MAX_SENTENCES == 2
Manager_MAX_LENGTH == 150
Manager_MAX_SENTENCES == 2

\* The characters of /[.!?]/ and the white space of the texts of the model.
SentenceEnds == {".", "!", "?"}
WhiteSpace == {" "}

\* obs.split(/[.!?]/): the pieces between the separators, the empty ones
\* included; piece k lies between the separators number k - 1 and k.
Split(text) ==
    LET ends == {i \in DOMAIN text : text[i] \in SentenceEnds}
        cuts == {0} \cup ends \cup {Len(text) + 1}
        cut(k) == CHOOSE c \in cuts : Cardinality({d \in cuts : d < c}) = k
    IN  [k \in 1..(Cardinality(ends) + 1) |->
            SubSeq(text, cut(k - 1) + 1, cut(k) - 1)]

\* s.trim()
Trim(s) ==
    LET inked == {i \in DOMAIN s : s[i] \notin WhiteSpace} IN
    IF inked = {} THEN <<>>
    ELSE SubSeq(s, CHOOSE i \in inked : \A j \in inked : i <= j,
                   CHOOSE i \in inked : \A j \in inked : i >= j)

\* Mutant of validateObservation: a text of MAX_SENTENCES segments is refused.
validateObservation_AtLimit(obs) ==
    IF Len(obs) > MAX_LENGTH
    THEN [valid |-> FALSE, error |-> <<"Observation too long", Len(obs)>>]
    ELSE LET sentences == SelectSeq(Split(obs),
                                    LAMBDA s : Len(Trim(s)) > 0)
         IN  IF Len(sentences) >= MAX_SENTENCES
             THEN [valid |-> FALSE,
                   error |-> <<"Too many sentences", Len(sentences)>>]
             ELSE [valid |-> TRUE]

\* validateObservation of core/validation.ts
validateObservation(obs) ==
    IF Len(obs) > MAX_LENGTH
    THEN [valid |-> FALSE, error |-> <<"Observation too long", Len(obs)>>]
    ELSE LET sentences == SelectSeq(Split(obs),
                                    LAMBDA s : Len(Trim(s)) > 0)
         IN  IF Len(sentences) > MAX_SENTENCES
             THEN [valid |-> FALSE,
                   error |-> <<"Too many sentences", Len(sentences)>>]
             ELSE [valid |-> TRUE]

\* KnowledgeGraphManager.validateObservation of index.ts
Manager_validateObservation(obs) ==
    IF Len(obs) > Manager_MAX_LENGTH
    THEN [valid |-> FALSE, error |-> <<"Observation too long", Len(obs)>>]
    ELSE LET sentences == SelectSeq(Split(obs),
                                    LAMBDA s : Len(Trim(s)) > 0)
         IN  IF Len(sentences) > Manager_MAX_SENTENCES
             THEN [valid |-> FALSE,
                   error |-> <<"Too many sentences", Len(sentences)>>]
             ELSE [valid |-> TRUE]

MaxText == 5   \* longest text drawn from the alphabet

Alphabet == {"a", " ", ".", "?"}

\* A text of n letters.
Letters(n) == [i \in 1..n |-> "a"]

\* "Library: python-docx version 1.2.0"
PythonDocx ==
    <<"L", "i", "b", "r", "a", "r", "y", ":", " ", "p", "y", "t", "h", "o",
      "n", "-", "d", "o", "c", "x", " ", "v", "e", "r", "s", "i", "o", "n",
      " ", "1", ".", "2", ".", "0">>

\* The texts validated: all short texts over the alphabet, texts at and
\* around MAX_LENGTH characters, and the text of the problem report.
Texts ==
    SeqsOf(Alphabet, 0, MaxText)
    \cup {Letters(MAX_LENGTH - 1), Letters(MAX_LENGTH), Letters(MAX_LENGTH + 1),
          Letters(MAX_LENGTH - 2) \o <<".", "a">>,
          Letters(MAX_LENGTH - 3) \o <<".", "a", "!">>,
          Letters(MAX_LENGTH - 3) \o <<".", "a", "!", "a">>,
          <<"a", "!", "a", ".", "a">>,
          PythonDocx}

InitValidate ==
    /\ files = <<>>
    /\ last = NoOp
    /\ procs = NoProcs

ValidateObservation ==
    \E text \in Texts :
        /\ last = NoOp
        /\ last' = [op |-> "validateObservation", text |-> text,
                    returned |-> validateObservation(text),
                    manager |-> Manager_validateObservation(text)]
        /\ UNCHANGED <<files, procs>>

NextValidate == ValidateObservation

SpecValidate == InitValidate /\ [][NextValidate]_vars

\* TRUE when the character at position i starts a segment that is not blank:
\* it is neither a separator nor white space, and only white space lies
\* between it and the separator before it (or the start of the text).
StartsSentence(text, i) ==
    /\ text[i] \notin SentenceEnds \cup WhiteSpace
    /\ \E k \in 0..(i - 1) :
           /\ k = 0 \/ text[k] \in SentenceEnds
           /\ \A j \in (k + 1)..(i - 1) : text[j] \in WhiteSpace

\* The number of segments of the text that are not blank.
SentenceCount(text) == Cardinality({i \in DOMAIN text : StartsSentence(text, i)})

C30_WitnessLength ==
    /\ last.op = "validateObservation"
    /\ \/ Len(last.text) = 150 /\ last.returned.valid
       \/ Len(last.text) = 151 /\ ~last.returned.valid

----------------------------------------------------------------------------
(* saveMemory of KnowledgeGraphManager (index.ts).  The validation runs     *)
(* first, without touching the storage.  A valid request is then served by  *)
(* two awaited calls, createEntities and createRelations, each of which     *)
(* loads and saves the graph on its own; other operations of the server run *)
(* between the two, and the second may fail on the storage.  procs holds    *)
(* the call that has created its entities and not yet its relations.        *)

\* entityType[0] === entityType[0].toLowerCase() and entityType.includes(' ')
\* for the entity types of the model, which are one letter each.
validateEntityType(entityType) ==
    [warnings |->
        (IF entityType # "" /\ ToLowerCase(entityType) = entityType
         THEN <<<<"starts with lowercase", entityType>>>> ELSE <<>>)
        \o (IF entityType # "" /\ Includes(entityType, " ")
            THEN <<<<"contains spaces", entityType>>>> ELSE <<>>)]

\* value ?? fallback
OrElse(value, fallback) == IF value = Undefined THEN fallback ELSE value[1]

\* The errors pushed for the observations of an entity.
ObservationErrors(entity) ==
    LET refused == SelectSeq(entity.observations,
                       LAMBDA obs : ~Manager_validateObservation(obs).valid)
    IN  [i \in DOMAIN refused |->
            <<entity.name, Manager_validateObservation(refused[i]).error>>]

\* Mutant of TargetErrors: the targets are not looked up.
TargetErrors_Skipped(input, entity) == <<>>

\* The errors pushed for the relations of an entity whose target is not
\* named by an entity of the request.
TargetErrors(input, entity) ==
    LET entityNames == {e.name : e \in Range(input.entities)}
        missing == SelectSeq(entity.relations,
                       LAMBDA rel : rel.targetEntity \notin entityNames)
    IN  [i \in DOMAIN missing |->
            <<entity.name, "target not found in request", missing[i].targetEntity>>]

\* The validation loop over the entities of the request.
RECURSIVE ValidationLoop(_, _, _, _)
ValidationLoop(input, entities, errors, warnings) ==
    IF entities = <<>> THEN [errors |-> errors, warnings |-> warnings]
    ELSE LET entity == Head(entities) IN
         ValidationLoop(input, Tail(entities),
             errors
                 \o (IF Len(entity.relations) = 0
                     THEN <<<<entity.name, "must have at least 1 relation">>>>
                     ELSE <<>>)
                 \o ObservationErrors(entity)
                 \o TargetErrors(input, entity),
             warnings \o validateEntityType(entity.entityType).warnings)

Validation(input) == ValidationLoop(input, input.entities, <<>>, <<>>)

\* entitiesToCreate; the defaults 1.0 and 0.5 on the scale 0..MaxImportance,
\* rounded down.
EntitiesToCreate(input, timestamp) ==
    [i \in DOMAIN input.entities |->
        [name |-> input.entities[i].name,
         entityType |-> input.entities[i].entityType,
         observations |-> input.entities[i].observations,
         observationsV2 |-> Undefined,
         agentThreadId |-> input.threadId,
         timestamp |-> timestamp,
         confidence |-> OrElse(input.entities[i].confidence, MaxImportance),
         importance |-> OrElse(input.entities[i].importance,
                               (5 * MaxImportance) \div 10)]]

\* The relations of one entity of the request; the default 0.7 on the scale.
RelationsOf(entity, threadId, timestamp) ==
    [j \in DOMAIN entity.relations |->
        [from |-> entity.name, to |-> entity.relations[j].targetEntity,
         relationType |-> entity.relations[j].relationType,
         agentThreadId |-> threadId, timestamp |-> timestamp,
         confidence |-> MaxImportance,
         importance |-> OrElse(entity.relations[j].importance,
                               (7 * MaxImportance) \div 10)]]

\* relationsToCreate
RECURSIVE RelationsLoop(_, _, _)
RelationsLoop(entities, threadId, timestamp) ==
    IF entities = <<>> THEN <<>>
    ELSE RelationsOf(Head(entities), threadId, timestamp)
             \o RelationsLoop(Tail(entities), threadId, timestamp)

RelationsToCreate(input, timestamp) ==
    RelationsLoop(input.entities, input.threadId, timestamp)

\* Math.min(1.0, avgRelationsPerEntity / 3), as a fraction.
QualityScore(relations, entities) ==
    IF relations >= 3 * entities THEN <<1, 1>> ELSE <<relations, 3 * entities>>

\* A text of one sentence and a text of three.
Fact == <<"a", " ", "f", "a", "c", "t">>
ThreeSentences == <<"a", ".", "b", ".", "c">>

SaveObservations == {<<>>, <<Fact>>, <<Letters(MAX_LENGTH + 1)>>, <<ThreeSentences>>}

SaveRelations ==
    {<<>>}
    \cup {<<[targetEntity |-> n, relationType |-> "knows", importance |-> Undefined]>> :
             n \in Names}

\* One entity of a request; "B" is given a type in lower case.
SaveEntity(name, observations, relations) ==
    [name |-> name, entityType |-> IF name = "B" THEN "t" ELSE "T",
     observations |-> observations, relations |-> relations,
     confidence |-> Undefined, importance |-> Undefined]

\* Requests of one entity, and requests naming A and then B.
SaveInputs ==
    {[entities |-> <<SaveEntity(n, o, r)>>, threadId |-> "t1"] :
        n \in Names, o \in SaveObservations, r \in SaveRelations}
    \cup {[entities |-> <<SaveEntity("A", o1, r1), SaveEntity("B", o2, r2)>>,
           threadId |-> "t1"] :
             o1 \in SaveObservations, r1 \in SaveRelations,
             o2 \in {<<>>, <<ThreeSentences>>}, r2 \in SaveRelations}

\* The store is empty, or holds B, or holds A and B and a relation.
InitSave ==
    /\ \E es \in {<<>>, <<Entity("B", "t2", 1, MaxImportance)>>,
                  <<Entity("A", "t1", 1, MaxImportance),
                    Entity("B", "t2", 1, MaxImportance)>>} :
         \E rs \in {<<>>, <<Relation("A", "B", "knows", "t1")>>} :
           /\ rs # <<>> => Len(es) = 2
           /\ files = saveGraph(<<>>, createRelations(createEntities(EmptyGraph, es), rs))
    /\ last = NoOp
    /\ procs = NoProcs

\* saveMemory up to the end of its first await: the validation and, for a
\* valid request, createEntities.
SaveMemory ==
    \E input \in SaveInputs, timestamp \in {MaxTime} :
        LET checked == Validation(input)
            graph == Persisted(files)
            entitiesToCreate == EntitiesToCreate(input, timestamp)
        IN  /\ last = NoOp
            /\ procs = NoProcs
            /\ IF Len(checked.errors) > 0
               THEN /\ last' = [op |-> "saveMemory", input |-> input,
                                before |-> graph, threw |-> FALSE,
                                returned |->
                                    [success |-> FALSE,
                                     created |-> [entities |-> 0, relations |-> 0],
                                     warnings |-> checked.warnings,
                                     quality_score |-> <<0, 1>>,
                                     validation_errors |-> checked.errors]]
                    /\ UNCHANGED <<files, procs>>
               ELSE /\ files' = saveGraph(files, createEntities(graph, entitiesToCreate))
                    /\ procs' = <<[pc |-> "createRelations", input |-> input,
                                   timestamp |-> timestamp, before |-> graph,
                                   warnings |-> checked.warnings,
                                   createdEntities |->
                                       NewEntities(graph, entitiesToCreate)]>>
                    /\ UNCHANGED last

\* The rest of saveMemory: createRelations and the result.
SaveMemoryRelations ==
    /\ procs # NoProcs
    /\ LET call == procs[1]
           graph == Persisted(files)
           relationsToCreate == RelationsToCreate(call.input, call.timestamp)
       IN  /\ files' = saveGraph(files, createRelations(graph, relationsToCreate))
           /\ last' = [op |-> "saveMemory", input |-> call.input,
                       before |-> call.before, threw |-> FALSE,
                       returned |->
                           [success |-> TRUE,
                            created |->
                                [entities |-> Len(call.createdEntities),
                                 relations |-> Len(NewRelations(graph, relationsToCreate))],
                            warnings |-> call.warnings,
                            quality_score |->
                                QualityScore(Len(relationsToCreate),
                                             Len(call.input.entities))]]
           /\ procs' = NoProcs

\* createRelations fails on the storage before it writes: saveMemory rejects.
SaveMemoryFails ==
    /\ procs # NoProcs
    /\ last' = [op |-> "saveMemory", input |-> procs[1].input,
                before |-> procs[1].before, threw |-> TRUE, returned |-> <<>>]
    /\ procs' = NoProcs
    /\ UNCHANGED files

\* readGraph served while saveMemory awaits.
ReadGraphMeanwhile ==
    /\ procs # NoProcs
    /\ last = NoOp
    /\ last' = [op |-> "readGraph", input |-> procs[1].input,
                before |-> procs[1].before, threw |-> FALSE,
                returned |-> Persisted(files)]
    /\ UNCHANGED <<files, procs>>

NextSave ==
    SaveMemory \/ SaveMemoryRelations \/ SaveMemoryFails \/ ReadGraphMeanwhile

SpecSave == InitSave /\ [][NextSave]_vars

\* TRUE when the request has one of the validation errors: an observation
\* over 150 characters or over 2 sentences, an entity with no relation, or a
\* relation whose target no entity of the request names.
HasValidationError(input) ==
    \E e \in Range(input.entities) :
        \/ Len(e.relations) = 0
        \/ \E obs \in Range(e.observations) :
               Len(obs) > 150 \/ SentenceCount(obs) > 2
        \/ \E rel \in Range(e.relations) :
               \A x \in Range(input.entities) : x.name # rel.targetEntity

Torn(graph, input, before, timestamp) ==
    /\ \E e \in Range(EntitiesToCreate(input, timestamp)) :
           e \in Range(graph.entities) /\ e.name \notin EntityNames(before)
    /\ \E r \in Range(RelationsToCreate(input, timestamp)) :
           \A x \in Range(graph.relations) : ~SameTriple(x, r)

\* C25: saveMemory is all-or-nothing: neither the graph another operation
\* reads while saveMemory is in progress, nor the graph persisted while it is
\* in progress or after a storage failure interrupted it, holds entities
\* added by the call without the relations of the call.
C25_SaveMemoryAtomic ==
    /\ procs # NoProcs =>
           ~Torn(Persisted(files), procs[1].input, procs[1].before, procs[1].timestamp)
    /\ last.op = "readGraph" =>
           ~Torn(last.returned, last.input, last.before, MaxTime)
    /\ (last.op = "saveMemory" /\ last.threw) =>
           ~Torn(Persisted(files), last.input, last.before, MaxTime)

\* C25 for the calls that complete: a saveMemory that returned success left
\* the entities it added together with the relations of the call.
C25_CompletedSaveIsWhole ==
    (last.op = "saveMemory" /\ ~last.threw /\ last.returned.success) =>
        ~Torn(Persisted(files), last.input, last.before, MaxTime)

----------------------------------------------------------------------------
(* detectConflicts of KnowledgeGraphManager (index.ts): a lexical test on   *)
(* every pair of observation strings of an entity.  Observations are texts, *)
(* sequences of characters.                                                 *)

\* KnowledgeGraphManager.NEGATION_WORDS
NEGATION_WORDS ==
    {<<"n", "o", "t">>,
     <<"n", "o">>,
     <<"n", "e", "v", "e", "r">>,
     <<"n", "e", "i", "t", "h", "e", "r">>,
     <<"n", "o", "n", "e">>,
     <<"d", "o", "e", "s", "n", "'", "t">>,
     <<"d", "o", "n", "'", "t">>,
     <<"i", "s", "n", "'", "t">>,
     <<"a", "r", "e", "n", "'", "t">>}

\* text.toLowerCase(), for the capital letters of the model.
LowerCaseText(text) ==
    [i \in DOMAIN text |-> IF text[i] = "N" THEN "n" ELSE ToLowerCase(text[i])]

\* text.includes(word)
IncludesText(text, word) ==
    \E k \in 0..(Len(text) - Len(word)) : SubSeq(text, k + 1, k + Len(word)) = word

\* text.split(/\s+/): the runs of characters that are not white space, with
\* an empty piece before white space that starts the text and after white
\* space that ends it.
SplitWords(text) ==
    LET starts == {i \in DOMAIN text :
                      /\ text[i] \notin WhiteSpace
                      /\ i = 1 \/ text[i - 1] \in WhiteSpace}
        start(k) == CHOOSE i \in starts : Cardinality({j \in starts : j < i}) = k - 1
        end(i) == CHOOSE j \in i..Len(text) :
                      /\ \A h \in i..j : text[h] \notin WhiteSpace
                      /\ j = Len(text) \/ text[j + 1] \in WhiteSpace
        runs == [k \in 1..Cardinality(starts) |-> SubSeq(text, start(k), end(start(k)))]
    IN  IF text = <<>> THEN <<<<>>>>
        ELSE (IF text[1] \in WhiteSpace THEN <<<<>>>> ELSE <<>>)
             \o runs
             \o (IF text[Len(text)] \in WhiteSpace THEN <<<<>>>> ELSE <<>>)

\* some(word => obs.includes(word)) over NEGATION_WORDS
HasNegation(obs) == \E word \in NEGATION_WORDS : IncludesText(obs, word)

\* Mutant of CommonWords: one shared word is counted for each of the two
\* observations.
CommonWords_Doubled(obs1, obs2) ==
    LET words1 == SelectSeq(SplitWords(obs1), LAMBDA w : Len(w) > 3)
        words2Set == Range(SelectSeq(SplitWords(obs2), LAMBDA w : Len(w) > 3))
        common == SelectSeq(words1, LAMBDA w : w \in words2Set /\ w \notin NEGATION_WORDS)
    IN  common \o common

\* commonWords of two lower-cased observations.
CommonWords(obs1, obs2) ==
    LET words1 == SelectSeq(SplitWords(obs1), LAMBDA w : Len(w) > 3)
        words2Set == Range(SelectSeq(SplitWords(obs2), LAMBDA w : Len(w) > 3))
    IN  SelectSeq(words1, LAMBDA w : w \in words2Set /\ w \notin NEGATION_WORDS)

\* The body of the two loops for the pair i < j of observations of an entity.
Conflicting(entity, i, j) ==
    LET obs1 == LowerCaseText(entity.observations[i])
        obs2 == LowerCaseText(entity.observations[j])
    IN  /\ HasNegation(obs1) # HasNegation(obs2)
        /\ Len(CommonWords(obs1, obs2)) >= 2

\* entityConflicts: the pairs in the order of the loops, i ascending and then
\* j ascending.
EntityConflicts(entity) ==
    LET n == Len(entity.observations)
        pairs == {p \in (1..n) \X (1..n) : p[1] < p[2] /\ Conflicting(entity, p[1], p[2])}
        before(p, q) == p[1] < q[1] \/ (p[1] = q[1] /\ p[2] < q[2])
        pair(k) == CHOOSE p \in pairs : Cardinality({q \in pairs : before(q, p)}) = k - 1
    IN  [k \in 1..Cardinality(pairs) |->
            [obs1 |-> entity.observations[pair(k)[1]],
             obs2 |-> entity.observations[pair(k)[2]],
             reason |-> "Potential contradiction with negation"]]

detectConflicts(graph) ==
    LET found == SelectSeq(graph.entities, LAMBDA e : Len(EntityConflicts(e)) > 0)
    IN  [k \in DOMAIN found |->
            [entityName |-> found[k].name, conflicts |-> EntityConflicts(found[k])]]

\* "is employed"
IsEmployed == <<"i", "s", " ", "e", "m", "p", "l", "o", "y", "e", "d">>

\* "is not employed"
IsNotEmployed == <<"i", "s", " ", "n", "o", "t", " ", "e", "m", "p", "l", "o", "y", "e", "d">>

\* "is happy"
IsHappy == <<"i", "s", " ", "h", "a", "p", "p", "y">>

\* "likes tea"
LikesTea == <<"l", "i", "k", "e", "s", " ", "t", "e", "a">>

\* "works at acme labs"
WorksAtAcme == <<"w", "o", "r", "k", "s", " ", "a", "t", " ", "a", "c", "m", "e", " ", "l", "a", "b", "s">>

\* "Never works at acme labs"
NeverWorksAtAcme == <<"N", "e", "v", "e", "r", " ", "w", "o", "r", "k", "s", " ", "a", "t", " ", "a", "c", "m", "e", " ", "l", "a", "b", "s">>

\* "acme acme"
AcmeAcme == <<"a", "c", "m", "e", " ", "a", "c", "m", "e">>

\* "never  acme"
NeverAcme == <<"n", "e", "v", "e", "r", " ", " ", "a", "c", "m", "e">>

ConflictTexts ==
    {IsEmployed, IsNotEmployed, IsHappy, LikesTea, WorksAtAcme,
     NeverWorksAtAcme, AcmeAcme, NeverAcme}

\* A (thread t1) holds up to MaxBatch of the texts; B (thread t2), when
\* stored, holds "is happy" and "likes tea".
InitConflicts ==
    /\ \E observations \in SeqsOf(ConflictTexts, 0, MaxBatch), others \in SeqsOf({"B"}, 0, 1) :
           files = saveGraph(<<>>, createEntities(EmptyGraph,
                       <<[Entity("A", "t1", 1, MaxImportance)
                             EXCEPT !.observations = observations]>>
                       \o [k \in DOMAIN others |->
                              [Entity(others[k], "t2", 1, MaxImportance)
                                  EXCEPT !.observations = <<IsHappy, LikesTea>>]]))
    /\ last = NoOp
    /\ procs = NoProcs

DetectConflicts ==
    /\ last = NoOp
    /\ last' = [op |-> "detectConflicts", before |-> Persisted(files),
                returned |-> detectConflicts(Persisted(files))]
    /\ UNCHANGED <<files, procs>>

NextConflicts == DetectConflicts

SpecConflicts == InitConflicts /\ [][NextConflicts]_vars

\* TRUE when detectConflicts reported the two texts as a pair of that entity.
Flagged(entityName, text1, text2) ==
    \E c \in Range(last.returned) :
        /\ c.entityName = entityName
        /\ \E p \in Range(c.conflicts) :
               {p.obs1, p.obs2} = {text1, text2}

\* TRUE when the entity holds both texts.
Holds(entity, text1, text2) ==
    {text1, text2} \subseteq Range(entity.observations)

\* C26: detectConflicts flags "is employed" and "is not employed", two
\* observations of one entity that differ only by an added negation cue
\* word, and does not flag "is happy" and "likes tea", which contain no cue
\* word and share no word.
C26_NegationPairFlagged ==
    last.op = "detectConflicts" =>
        \A e \in Range(last.before.entities) :
            /\ Holds(e, IsEmployed, IsNotEmployed)
                   => Flagged(e.name, IsEmployed, IsNotEmployed)
            /\ ~Flagged(e.name, IsHappy, LikesTea)

\* The words of a text longer than 3 characters that are no cue word, as the
\* positions where they start.
KeyWordStarts(text) ==
    {i \in DOMAIN text :
        /\ text[i] \notin WhiteSpace
        /\ i = 1 \/ text[i - 1] \in WhiteSpace
        /\ \E j \in (i + 3)..Len(text) :
               /\ \A h \in i..j : text[h] \notin WhiteSpace
               /\ j = Len(text) \/ text[j + 1] \in WhiteSpace
               /\ SubSeq(text, i, j) \notin NEGATION_WORDS}

\* The key word of the text that starts at position i.
KeyWordAt(text, i) ==
    SubSeq(text, i, CHOOSE j \in i..Len(text) :
                        /\ \A h \in i..j : text[h] \notin WhiteSpace
                        /\ j = Len(text) \/ text[j + 1] \in WhiteSpace)

\* The number of key words of the first text, each occurrence counted, that
\* are also key words of the second.
SharedKeyWords(text1, text2) ==
    Cardinality({i \in KeyWordStarts(text1) :
                    \E k \in KeyWordStarts(text2) :
                        KeyWordAt(text2, k) = KeyWordAt(text1, i)})

\* C26 amended: a pair of observations of one entity is flagged exactly when
\* one of the two, in lower case, contains a negation cue and the other does
\* not, and at least two words of the earlier one (longer than 3 characters,
\* no cue words, each occurrence counted) are words of the later one.  So
\* "is employed" and "is not employed", which share one such word, are not
\* flagged; "works at acme labs" and "Never works at acme labs" are; "is
\* happy" and "likes tea" are not.
C26_ConflictHeuristic ==
    last.op = "detectConflicts" =>
        \A e \in Range(last.before.entities) :
            /\ \A i \in DOMAIN e.observations, j \in DOMAIN e.observations :
                   i < j =>
                       LET text1 == LowerCaseText(e.observations[i])
                           text2 == LowerCaseText(e.observations[j])
                       IN  (\E c \in Range(last.returned) :
                                /\ c.entityName = e.name
                                /\ \E p \in Range(c.conflicts) :
                                       /\ p.obs1 = e.observations[i]
                                       /\ p.obs2 = e.observations[j])
                           <=> /\ HasNegation(text1) # HasNegation(text2)
                               /\ SharedKeyWords(text1, text2) >= 2
            /\ ~Flagged(e.name, IsEmployed, IsNotEmployed)
            /\ ~Flagged(e.name, IsHappy, LikesTea)
            /\ Holds(e, WorksAtAcme, NeverWorksAtAcme)
                   => Flagged(e.name, WorksAtAcme, NeverWorksAtAcme)

\* C26 witness: an entity holding "is employed" and "is not employed" was
\* examined and no conflict was reported for it.
C26_Witness ==
    /\ last.op = "detectConflicts"
    /\ \E e \in Range(last.before.entities) :
           /\ e.observations = <<IsEmployed, IsNotEmployed>>
           /\ \A c \in Range(last.returned) : c.entityName # e.name

\* C26 witness of a flagged pair.
C26_WitnessFlagged ==
    /\ last.op = "detectConflicts"
    /\ Flagged("A", WorksAtAcme, NeverWorksAtAcme)
    /\ Len(last.before.entities) = 2

----------------------------------------------------------------------------
(* The thread-scoped deleteEntities of lib/operations/entity-operations.ts, *)
(* on stores whose relations are authored under either thread.              *)

\* deletedEntityNames: the names of the list carried by an entity of the thread.
DeletedEntityNames(graph, threadId, entityNames) ==
    {e.name : e \in {x \in Range(graph.entities) :
                        x.name \in Range(entityNames) /\ x.agentThreadId = threadId}}

\* deleteEntities(storage, threadId, entityNames): the graph it saves.
deleteEntitiesInThread(graph, threadId, entityNames) ==
    LET deletedEntityNames == DeletedEntityNames(graph, threadId, entityNames) IN
    KnowledgeGraph(
        SelectSeq(graph.entities,
                  LAMBDA e : ~(e.name \in deletedEntityNames
                               /\ e.agentThreadId = threadId)),
        SelectSeq(graph.relations,
                  LAMBDA r : ~(/\ r.agentThreadId = threadId
                               /\ (r.from \in deletedEntityNames
                                   \/ r.to \in deletedEntityNames))))

\* The relations of the stores: between A and B, authored under t1 or t2.
ThreadDeleteRelations ==
    {Relation(p[1], p[2], "knows", t) :
        p \in {<<"A", "B">>, <<"B", "A">>, <<"A", "A">>}, t \in Threads}

\* A (thread t1) and B (thread t1 or t2) with up to MaxRelations relations.
InitThreadDelete ==
    /\ \E t \in Threads, rs \in SeqsOf(ThreadDeleteRelations, 0, MaxRelations) :
           files = saveGraph(<<>>, createRelations(
                       createEntities(EmptyGraph,
                           <<Entity("A", "t1", 1, MaxImportance),
                             Entity("B", t, 1, MaxImportance)>>), rs))
    /\ last = NoOp
    /\ procs = NoProcs

DeleteEntitiesInThread ==
    \E threadId \in Threads, entityNames \in SeqsOf(Names, 0, MaxBatch) :
        LET graph == Persisted(files) IN
        /\ last = NoOp
        /\ files' = saveGraph(files, deleteEntitiesInThread(graph, threadId, entityNames))
        /\ last' = [op |-> "deleteEntitiesInThread", threadId |-> threadId,
                    entityNames |-> entityNames, before |-> graph]
        /\ UNCHANGED procs

NextThreadDelete == DeleteEntitiesInThread

SpecThreadDelete == InitThreadDelete /\ [][NextThreadDelete]_vars

\* The names of the entities the last call deleted.
DeletedByLast ==
    {e.name : e \in {x \in Range(last.before.entities) :
                        /\ x.name \in Range(last.entityNames)
                        /\ x.agentThreadId = last.threadId}}

\* C28: after the thread-scoped deleteEntities, no persisted relation of any
\* thread has as from or to the name of an entity the call deleted.
C28_ThreadDeleteCascades ==
    last.op = "deleteEntitiesInThread" =>
        \A r \in Range(Persisted(files).relations) :
            r.from \notin DeletedByLast /\ r.to \notin DeletedByLast

\* C28 for the relations of the thread of the call: none of them names a
\* deleted entity, and the entities named and owned by the thread are gone.
C28_OwnRelationsCascade ==
    last.op = "deleteEntitiesInThread" =>
        /\ \A r \in Range(Persisted(files).relations) :
               r.agentThreadId = last.threadId =>
                   r.from \notin DeletedByLast /\ r.to \notin DeletedByLast
        /\ \A e \in Range(Persisted(files).entities) :
               ~(e.name \in Range(last.entityNames) /\ e.agentThreadId = last.threadId)

----------------------------------------------------------------------------
(* The Neo4j storage adapter (neo4j-storage-adapter.ts) beside the          *)
(* file-per-thread adapter.  The database is the list of its Entity nodes   *)
(* and the list of its RELATES_TO edges; initialize() has created the       *)
(* constraint that makes the name of a node unique.  saveGraph runs in one  *)
(* transaction: a statement that fails leaves the database as it was.       *)

EmptyDatabase == [nodes |-> <<>>, edges |-> <<>>]

\* JSON.stringify(observations)
serializeObservations(observations) == [json |-> "array", items |-> observations]

\* JSON.parse(observationsJson), [] when it throws
deserializeObservations(observationsJson) ==
    IF observationsJson.json = "array" THEN observationsJson.items ELSE <<>>

\* The node of CREATE (e:Entity {...}).
EntityNode(entity) ==
    [name |-> entity.name, entityType |-> entity.entityType,
     observations |-> serializeObservations(entity.observations),
     agentThreadId |-> entity.agentThreadId, timestamp |-> entity.timestamp,
     confidence |-> entity.confidence, importance |-> entity.importance]

\* The loop creating the nodes; ok = FALSE when a CREATE breaks the
\* constraint entity_name_unique.
RECURSIVE CreateNodes(_, _)
CreateNodes(nodes, entities) ==
    IF entities = <<>> THEN [ok |-> TRUE, nodes |-> nodes]
    ELSE IF \E n \in Range(nodes) : n.name = Head(entities).name
         THEN [ok |-> FALSE, nodes |-> nodes]
         ELSE CreateNodes(Append(nodes, EntityNode(Head(entities))), Tail(entities))

\* The loop creating the edges: MATCH (from) MATCH (to) CREATE, which
\* creates nothing when a node of that name is missing.
RECURSIVE CreateEdges(_, _, _)
CreateEdges(nodes, edges, relations) ==
    IF relations = <<>> THEN edges
    ELSE LET relation == Head(relations)
             matched == /\ \E n \in Range(nodes) : n.name = relation.from
                        /\ \E n \in Range(nodes) : n.name = relation.to
         IN  CreateEdges(nodes,
                         IF matched THEN Append(edges, relation) ELSE edges,
                         Tail(relations))

\* Neo4jStorageAdapter.saveGraph: DETACH DELETE of all nodes, then the
\* creations; the database is unchanged when the transaction fails.
Neo4j_saveGraph(database, graph) ==
    LET created == CreateNodes(<<>>, graph.entities) IN
    IF created.ok
    THEN [ok |-> TRUE,
          database |-> [nodes |-> created.nodes,
                        edges |-> CreateEdges(created.nodes, <<>>, graph.relations)]]
    ELSE [ok |-> FALSE, database |-> database]

\* Neo4jStorageAdapter.loadGraph; a field the query does not return is
\* undefined in the entity.
Neo4j_loadGraph(database) ==
    KnowledgeGraph(
        [i \in DOMAIN database.nodes |->
            [name |-> database.nodes[i].name,
             entityType |-> database.nodes[i].entityType,
             observations |-> deserializeObservations(database.nodes[i].observations),
             observationsV2 |-> Undefined,
             agentThreadId |-> database.nodes[i].agentThreadId,
             timestamp |-> database.nodes[i].timestamp,
             confidence |-> database.nodes[i].confidence,
             importance |-> database.nodes[i].importance]],
        database.edges)

\* The entities saved: A, with or without an observation and with or without
\* versioned observations written by addObservationsV2, and B or not.
AdapterEntityLists ==
    LET plain == {[Entity("A", "t1", 1, MaxImportance) EXCEPT !.observations = o] :
                     o \in {<<>>, <<"x">>}}
        versioned == {addObservationsV2(KnowledgeGraph(<<e>>, <<>>),
                          <<ObservationRequest("A", <<"y">>)>>, MaxTime).entities[1] :
                          e \in plain}
    IN  {<<a>> : a \in plain \cup versioned}
        \cup {<<a, Entity("B", "t2", 1, MaxImportance)>> : a \in plain \cup versioned}

\* The relations saved; one to B is dangling in a graph without B.
AdapterRelationLists == SeqsOf(ThreadDeleteRelations, 0, MaxRelations)

InitAdapters ==
    /\ files = <<>>
    /\ last = NoOp
    /\ procs = NoProcs

\* saveGraph(graph) and then loadGraph(), on each adapter from an empty store.
SaveAndLoad ==
    \E es \in AdapterEntityLists, rs \in AdapterRelationLists :
        LET graph == KnowledgeGraph(es, rs)
            saved == Neo4j_saveGraph(EmptyDatabase, graph)
        IN  /\ last = NoOp
            /\ files' = saveGraph(files, graph)
            /\ last' = [op |-> "saveGraph", graph |-> graph,
                        threw |-> ~saved.ok, database |-> saved.database,
                        neo4j |-> Neo4j_loadGraph(saved.database),
                        file |-> loadGraph(files')]
            /\ UNCHANGED procs

NextAdapters == SaveAndLoad

SpecAdapters == InitAdapters /\ [][NextAdapters]_vars

\* TRUE when every relation of the graph joins entities of the graph.
NoDanglingRelation(graph) ==
    \A r \in Range(graph.relations) :
        r.from \in EntityNames(graph) /\ r.to \in EntityNames(graph)

\* C29: saveGraph(G) followed by loadGraph() gives, on the Neo4j adapter, the
\* entities and relations the file adapter gives, with the same field values,
\* up to ordering, also for entities that carry observationsV2 (stated for
\* the graphs whose relations all join entities of the graph).
C29_AdaptersAgree ==
    (last.op = "saveGraph" /\ NoDanglingRelation(last.graph)) =>
        /\ ~last.threw
        /\ SameBag(last.neo4j.entities, last.file.entities)
        /\ SameBag(last.neo4j.relations, last.file.relations)

\* C29 for graphs without versioned observations: the two adapters agree.
C29_AdaptersAgreeWithoutV2 ==
    (/\ last.op = "saveGraph"
     /\ NoDanglingRelation(last.graph)
     /\ \A e \in Range(last.graph.entities) : e.observationsV2 = Undefined) =>
        /\ ~last.threw
        /\ SameBag(last.neo4j.entities, last.file.entities)
        /\ SameBag(last.neo4j.relations, last.file.relations)

----------------------------------------------------------------------------
(* The thread-scoped readGraph called without minImportance.                *)

\* The persisted relations authored under the thread of the last read.
OwnRelations ==
    SelectSeq(Persisted(files).relations, LAMBDA r : r.agentThreadId = last.threadId)

AtLeastTenth(importance) == 10 * importance >= MaxImportance

\* The entity as the default read gives it: the observations whose
\* importance (the entity's, when they have none) is at least 0.1.
DefaultView(e) ==
    [e EXCEPT !.observations =
        SelectSeq(@, LAMBDA o : AtLeastTenth(IF "importance" \in DOMAIN o
                                             THEN o.importance ELSE e.importance))]

RECURSIVE DeleteObservationsLoop(_, _)
DeleteObservationsLoop(entities, deletions) ==
    IF deletions = <<>> THEN entities
    ELSE LET d == Head(deletions)
             i == FindEntity(entities, d.entityName)
         IN  IF i = 0 THEN DeleteObservationsLoop(entities, Tail(deletions))
             ELSE DeleteObservationsLoop(
                      [entities EXCEPT ![i].observations =
                          SelectSeq(@, LAMBDA o : o \notin Range(d.observations))],
                      Tail(deletions))

deleteObservations(graph, deletions) ==
    KnowledgeGraph(DeleteObservationsLoop(graph.entities, deletions), graph.relations)

FLAG_OPEN == <<"[", "F", "L", "A", "G", "G", "E", "D", " ", "F", "O", "R", " ", "R", "E", "V", "I", "E", "W", ":", " ">>
FLAG_REVIEWER == <<" ", "-", " ", "R", "e", "v", "i", "e", "w", "e", "r", ":", " ">>
FLAG_CLOSE == <<"]">>
FLAG_MARK == <<"[", "F", "L", "A", "G", "G", "E", "D", " ", "F", "O", "R", " ", "R", "E", "V", "I", "E", "W", ":">>

\* `[FLAGGED FOR REVIEW: ${reason}${reviewer ? ` - Reviewer: ${reviewer}` : ''}]`
flagObservation(reason, reviewer) ==
    FLAG_OPEN \o reason
        \o (IF reviewer # Undefined /\ reviewer[1] # <<>>
            THEN FLAG_REVIEWER \o reviewer[1] ELSE <<>>)
        \o FLAG_CLOSE

\* Mutant of flagForReview: the sentinel is pushed and the graph saved on
\* every call.
flagForReview_Always(graph, entityName, reason, reviewer, now) ==
    LET i == FindEntity(graph.entities, entityName) IN
    IF i = 0 THEN [threw |-> TRUE, saved |-> FALSE, graph |-> graph]
    ELSE [threw |-> FALSE, saved |-> TRUE,
          graph |-> [graph EXCEPT
                        !.entities[i].observations =
                            Append(@, flagObservation(reason, reviewer)),
                        !.entities[i].timestamp = now]]

\* flagForReview: throws when no loaded entity has the name; pushes the
\* sentinel, stamps the entity and saves only when the sentinel is not yet
\* among the observations.  now is new Date().toISOString().
flagForReview(graph, entityName, reason, reviewer, now) ==
    LET i == FindEntity(graph.entities, entityName) IN
    IF i = 0 THEN [threw |-> TRUE, saved |-> FALSE, graph |-> graph]
    ELSE IF flagObservation(reason, reviewer) \in Range(graph.entities[i].observations)
    THEN [threw |-> FALSE, saved |-> FALSE, graph |-> graph]
    ELSE [threw |-> FALSE, saved |-> TRUE,
          graph |-> [graph EXCEPT
                        !.entities[i].observations =
                            Append(@, flagObservation(reason, reviewer)),
                        !.entities[i].timestamp = now]]

\* getFlaggedEntities: the entities with an observation that includes the mark.
getFlaggedEntities(graph) ==
    SelectSeq(graph.entities,
              LAMBDA e : \E obs \in Range(e.observations) : IncludesText(obs, FLAG_MARK))

MaxOps == 4   \* most operations run one after another

TextX == <<"x">>
TextY == <<"y">>
TextReason == <<"r">>
TextReviewer == <<"v">>

EngineStart == [op |-> "none", step |-> 0]

EngineEntities ==
    {<<Entity("A", "t1", 1, MaxImportance)>>, <<Entity("B", "t2", 1, MaxImportance)>>}

EngineRelations ==
    {<<Relation("A", "B", "knows", "t1")>>, <<Relation("B", "A", "knows", "t2")>>}

EngineSaveInputs ==
    {[entities |-> <<SaveEntity("A", <<>>, r)>>, threadId |-> "t1"] :
        r \in SaveRelations \ {<<>>}}

\* Requests as the add_observations tools accept them: timestamp is any
\* string, the empty one (0) included.
EngineRequest(entityName, contents, timestamp) ==
    [entityName |-> entityName, contents |-> contents, agentThreadId |-> "t2",
     timestamp |-> timestamp, confidence |-> 0, importance |-> 0]

EngineRequests ==
    {<<EngineRequest("A", <<TextX>>, ts)>> : ts \in {0, MaxTime}}
    \cup {<<EngineRequest("Z", <<TextX>>, MaxTime)>>}

EngineDeletions ==
    {<<[entityName |-> n, observations |-> <<TextX>>]>> : n \in {"A", "Z"}}

EngineUpdates ==
    {<<[entityName |-> n, confidence |-> Undefined, importance |-> Some(0),
        addObservations |-> Some(<<TextY>>)]>> : n \in {"A", "Z"}}

EngineFlags ==
    {[entityName |-> "A", reason |-> TextReason, reviewer |-> Undefined],
     [entityName |-> "A", reason |-> TextReason, reviewer |-> Some(TextReviewer)],
     [entityName |-> "Z", reason |-> TextReason, reviewer |-> Undefined]}

EnginePruneOptions ==
    {[olderThan |-> Undefined, importanceLessThan |-> Some(MaxImportance),
      keepMinEntities |-> k] : k \in {Undefined, Some(1)}}

InitEngine ==
    /\ files = <<>>
    /\ last = EngineStart
    /\ procs = NoProcs

EngineCreateEntities ==
    \E entities \in EngineEntities :
        LET graph == Persisted(files) IN
        /\ last.step < MaxOps
        /\ files' = saveGraph(files, createEntities(graph, entities))
        /\ last' = [op |-> "createEntities", step |-> last.step + 1,
                    entities |-> entities, before |-> graph, threw |-> FALSE]
        /\ UNCHANGED procs

EngineCreateRelations ==
    \E relations \in EngineRelations :
        LET graph == Persisted(files) IN
        /\ last.step < MaxOps
        /\ files' = saveGraph(files, createRelations(graph, relations))
        /\ last' = [op |-> "createRelations", step |-> last.step + 1,
                    relations |-> relations, before |-> graph, threw |-> FALSE]
        /\ UNCHANGED procs

\* save_memory: validation, then createEntities, then createRelations, each
\* with its own load and save; nothing is written on a validation error.
EngineSaveMemory ==
    \E input \in EngineSaveInputs, timestamp \in {MaxTime} :
        LET checked == Validation(input)
            graph == Persisted(files)
            created == saveGraph(files,
                           createEntities(graph, EntitiesToCreate(input, timestamp)))
        IN  /\ last.step < MaxOps
            /\ files' = IF Len(checked.errors) > 0 THEN files
                        ELSE saveGraph(created,
                                 createRelations(Persisted(created),
                                     RelationsToCreate(input, timestamp)))
            /\ last' = [op |-> "saveMemory", step |-> last.step + 1,
                        input |-> input, before |-> graph, threw |-> FALSE,
                        success |-> Len(checked.errors) = 0]
            /\ UNCHANGED procs

EngineAddObservations ==
    \E observations \in EngineRequests :
        LET graph == Persisted(files)
            done == addObservations(graph, observations)
        IN  /\ last.step < MaxOps
            /\ WithinObservations(done.entities)
            /\ files' = IF done.ok
                        THEN saveGraph(files, KnowledgeGraph(done.entities,
                                                             graph.relations))
                        ELSE files
            /\ last' = [op |-> "addObservations", step |-> last.step + 1,
                        observations |-> observations, before |-> graph,
                        threw |-> ~done.ok]
            /\ UNCHANGED procs

EngineAddObservationsV2 ==
    \E observations \in EngineRequests, now \in {MaxTime} :
        LET graph == Persisted(files)
            done == addObservationsV2(graph, observations, now)
        IN  /\ last.step < MaxOps
            /\ WithinObservations(done.entities)
            /\ files' = IF done.ok
                        THEN saveGraph(files, KnowledgeGraph(done.entities,
                                                             graph.relations))
                        ELSE files
            /\ last' = [op |-> "addObservationsV2", step |-> last.step + 1,
                        observations |-> observations, before |-> graph,
                        threw |-> ~done.ok]
            /\ UNCHANGED procs

EngineDeleteEntities ==
    \E entityNames \in {<<"A">>, <<"B">>} :
        LET graph == Persisted(files) IN
        /\ last.step < MaxOps
        /\ files' = saveGraph(files, deleteEntities(graph, entityNames))
        /\ last' = [op |-> "deleteEntities", step |-> last.step + 1,
                    entityNames |-> entityNames, before |-> graph, threw |-> FALSE]
        /\ UNCHANGED procs

EngineDeleteObservations ==
    \E deletions \in EngineDeletions :
        LET graph == Persisted(files) IN
        /\ last.step < MaxOps
        /\ files' = saveGraph(files, deleteObservations(graph, deletions))
        /\ last' = [op |-> "deleteObservations", step |-> last.step + 1,
                    deletions |-> deletions, before |-> graph, threw |-> FALSE]
        /\ UNCHANGED procs

EngineDeleteRelations ==
    \E relations \in EngineRelations :
        LET graph == Persisted(files) IN
        /\ last.step < MaxOps
        /\ files' = saveGraph(files, deleteRelations(graph, relations))
        /\ last' = [op |-> "deleteRelations", step |-> last.step + 1,
                    relations |-> relations, before |-> graph, threw |-> FALSE]
        /\ UNCHANGED procs

EngineBulkUpdate ==
    \E updates \in EngineUpdates, now \in {MaxTime} :
        LET graph == Persisted(files)
            done == bulkUpdate(graph, updates, now)
        IN  /\ last.step < MaxOps
            /\ WithinObservations(done.entities)
            /\ files' = saveGraph(files, KnowledgeGraph(done.entities,
                                                        graph.relations))
            /\ last' = [op |-> "bulkUpdate", step |-> last.step + 1,
                        updates |-> updates, before |-> graph, threw |-> FALSE]
            /\ UNCHANGED procs

EngineFlagForReview ==
    \E flag \in EngineFlags, now \in 1..MaxTime :
        LET graph == Persisted(files)
            done == flagForReview(graph, flag.entityName, flag.reason,
                                  flag.reviewer, now)
        IN  /\ last.step < MaxOps
            /\ WithinObservations(done.graph.entities)
            /\ files' = IF done.saved THEN saveGraph(files, done.graph) ELSE files
            /\ last' = [op |-> "flagForReview", step |-> last.step + 1,
                        flag |-> flag, now |-> now, before |-> graph,
                        beforeFiles |-> files, threw |-> done.threw]
            /\ UNCHANGED procs

EnginePruneMemory ==
    \E options \in EnginePruneOptions :
        LET graph == Persisted(files)
            kept == EntitiesToKeep(graph, options)
        IN  /\ last.step < MaxOps
            /\ files' = saveGraph(files,
                            KnowledgeGraph(kept, RelationsToKeep(graph, kept)))
            /\ last' = [op |-> "pruneMemory", step |-> last.step + 1,
                        options |-> options, before |-> graph, threw |-> FALSE]
            /\ UNCHANGED procs

NextEngine ==
    \/ EngineCreateEntities
    \/ EngineCreateRelations
    \/ EngineSaveMemory
    \/ EngineAddObservations
    \/ EngineAddObservationsV2
    \/ EngineDeleteEntities
    \/ EngineDeleteObservations
    \/ EngineDeleteRelations
    \/ EngineBulkUpdate
    \/ EngineFlagForReview
    \/ EnginePruneMemory

SpecEngine == InitEngine /\ [][NextEngine]_vars

\* The names on the entity lines of the thread files, loadable or not.
PersistedNames ==
    {l.name : l \in {x \in UNION {Range(files[f]) : f \in DOMAIN files} :
                        "type" \in DOMAIN x /\ x.type = "entity"}}

\* C32: every persisted relation has from and to equal to the names of
\* persisted entities, after any sequence of operations from the empty store.
C32_NoDanglingRelation ==
    \A r \in Range(Persisted(files).relations) :
        r.from \in PersistedNames /\ r.to \in PersistedNames

\* The persisted entities an addObservationsV2 call was aimed at.
TargetedEntities ==
    {e \in Range(Persisted(files).entities) :
        \E o \in Range(last.observations) : o.entityName = e.name}

VersionedContents(e) ==
    IF e.observationsV2 = Undefined THEN {}
    ELSE {obs.content : obs \in Range(e.observationsV2[1])}

\* C37: after an addObservationsV2 call returns, whatever ran before it, the
\* contents of observationsV2 and the legacy observations of each targeted
\* entity are the same set of strings.
C37_VersionedMirrorsLegacy ==
    (last.op = "addObservationsV2" /\ ~last.threw) =>
        \A e \in TargetedEntities : VersionedContents(e) = Range(e.observations)

\* What the call does establish: every requested string is versioned.
C37_RequestedAreVersioned ==
    (last.op = "addObservationsV2" /\ ~last.threw) =>
        \A e \in TargetedEntities :
            \A o \in Range(last.observations) :
                o.entityName = e.name => Range(o.contents) \subseteq VersionedContents(e)

\* The entity lines of a thread file of the directory.
EntityLinesIn(f) ==
    {l \in Range(files[f]) : "type" \in DOMAIN l /\ l.type = "entity"}

\* TRUE when the entity lines of the name are in the file of the thread, carry
\* that thread, and are in no other file.
StoredInThreadOnly(name, agentThreadId) ==
    /\ getThreadFilePath(agentThreadId) \in DOMAIN files
    /\ \E l \in EntityLinesIn(getThreadFilePath(agentThreadId)) : l.name = name
    /\ \A f \in DOMAIN files :
           \A l \in EntityLinesIn(f) :
               l.name = name =>
                   f = getThreadFilePath(agentThreadId) /\ l.agentThreadId = agentThreadId

\* C38: an operation other than delete and prune leaves every entity on a
\* line of the file of its own thread and of no other file, with its
\* agentThreadId, even when the request carries another thread; addObservations
\* and addObservationsV2 put the request's timestamp, confidence and
\* importance on the line.
C38_ThreadKept ==
    (/\ last.op \notin {"none", "deleteEntities", "pruneMemory"}
     /\ ~last.threw) =>
        \A e \in Range(last.before.entities) :
            /\ StoredInThreadOnly(e.name, e.agentThreadId)
            /\ last.op \in {"addObservations", "addObservationsV2"} =>
                   \A o \in Range(last.observations) :
                       o.entityName = e.name =>
                           \A l \in EntityLinesIn(getThreadFilePath(e.agentThreadId)) :
                               l.name = e.name =>
                                   /\ l.timestamp = o.timestamp
                                   /\ l.confidence = o.confidence
                                   /\ l.importance = o.importance

\* C38 witness: addObservationsV2 with a request of thread t2 on entity A of
\* thread t1, while a file of thread t2 exists: A stays in the file of t1
\* with the request's timestamp, confidence and importance.
C38_Witness ==
    /\ last.op = "addObservationsV2"
    /\ ~last.threw
    /\ last.observations[1].agentThreadId = "t2"
    /\ \E e \in Range(last.before.entities) :
           /\ e.name = last.observations[1].entityName
           /\ e.agentThreadId = "t1"
           /\ e.confidence # last.observations[1].confidence
    /\ getThreadFilePath("t2") \in DOMAIN files
    /\ \E l \in EntityLinesIn(getThreadFilePath("t1")) :
           /\ l.name = "A"
           /\ l.agentThreadId = "t1"
           /\ l.timestamp = last.observations[1].timestamp
           /\ l.confidence = last.observations[1].confidence

\* C38 witness: the same for flagForReview and bulkUpdate.
C38_WitnessFlag ==
    /\ last.op \in {"flagForReview", "bulkUpdate"}
    /\ ~last.threw
    /\ \E e \in Range(last.before.entities) : e.name = "A"
    /\ StoredInThreadOnly("A", "t1")

\* The sentinel of the last flagForReview call.
LastSentinel == flagObservation(last.flag.reason, last.flag.reviewer)

\* How often the text occurs among the observations of the entity.
Occurrences(e, text) == Cardinality({i \in DOMAIN e.observations : e.observations[i] = text})

\* C39: a flagForReview call that does not throw leaves exactly one sentinel
\* on the entity and getFlaggedEntities returns the entity; a call that
\* finds its sentinel already there (the second of two equal calls) leaves
\* the persisted files, the entity's timestamp included, unchanged; a call
\* naming an absent entity throws and persists nothing.
C39_FlagForReviewIdempotent ==
    last.op = "flagForReview" =>
        LET i == FindEntity(last.before.entities, last.flag.entityName)
            after == Persisted(files)
        IN  /\ last.threw <=> i = 0
            /\ last.threw => files = last.beforeFiles
            /\ ~last.threw =>
                   /\ \A e \in Range(after.entities) :
                          e.name = last.flag.entityName => Occurrences(e, LastSentinel) = 1
                   /\ \E e \in Range(getFlaggedEntities(after)) :
                          e.name = last.flag.entityName
                   /\ LastSentinel \in Range(last.before.entities[i].observations) =>
                          files = last.beforeFiles

\* C39 witness: a second call with the same name, reason and reviewer, made
\* at another time than the entity's timestamp, that changed nothing.
C39_Witness ==
    /\ last.op = "flagForReview"
    /\ ~last.threw
    /\ last.flag.reviewer # Undefined
    /\ \E e \in Range(last.before.entities) :
           /\ e.name = last.flag.entityName
           /\ LastSentinel \in Range(e.observations)
           /\ e.timestamp # last.now
    /\ files = last.beforeFiles
    /\ \E e \in Range(getFlaggedEntities(Persisted(files))) :
           e.name = last.flag.entityName /\ e.timestamp # last.now

\* C39 witness: a call naming an absent entity on a store that is not empty.
C39_WitnessAbsent ==
    /\ last.op = "flagForReview"
    /\ last.threw
    /\ Len(last.before.entities) > 0
    /\ files = last.beforeFiles

\* C33: a path that findRelationPath found starts with from and ends with
\* to, has one relation fewer than entities, its i-th relation is a
\* persisted relation that joins path[i] and path[i+1] in one direction or
\* the other, no entity occurs twice in it, and no chain of persisted
\* relations between from and to has fewer relations.
C33_FoundPathIsShortest ==
    (last.op = "findRelationPath" /\ last.returned.found) =>
        LET path == last.returned.path
            relations == last.returned.relations
        IN  /\ Len(path) >= 1
            /\ path[1] = last.from
            /\ path[Len(path)] = last.to
            /\ Len(relations) = Len(path) - 1
            /\ \A i \in DOMAIN relations :
                   /\ relations[i] \in Range(Persisted(files).relations)
                   /\ \/ relations[i].from = path[i] /\ relations[i].to = path[i + 1]
                      \/ relations[i].to = path[i] /\ relations[i].from = path[i + 1]
            /\ \A i, j \in DOMAIN path : i # j => path[i] # path[j]
            /\ Len(relations) > 0 =>
                   ~Joined(Persisted(files).relations, last.from, last.to,
                           Len(relations) - 1)

\* C33 witness: a path of two relations, the first taken against its
\* direction, found in a store that has a third relation at from.
C33_Witness ==
    /\ last.op = "findRelationPath"
    /\ last.returned.found
    /\ Len(last.returned.relations) = 2
    /\ last.returned.relations[1].to = last.from
    /\ last.returned.relations[1].from # last.from
    /\ \E r \in Range(Persisted(files).relations) :
           /\ r \notin Range(last.returned.relations)
           /\ r.from = last.from

\* The threads that are keys of the thread map of every caller's saveGraph.
CommonThreads ==
    {t \in Threads : \A p \in Procs : t \in ThreadMapKeys(procs[p].graph)}

\* C34: once the overlapping saveGraph calls have completed, the directory
\* holds exactly the graph passed to one of them, never a mixture of thread
\* files written by different calls, and every thread present in all the
\* graphs has its file.
C34_LastWriterWins ==
    AllDone =>
        /\ \E p \in Procs : files = saveGraph(<<>>, procs[p].graph)
        /\ \A t \in CommonThreads : getThreadFilePath(t) \in DOMAIN files

\* The part that holds: a thread present in every graph keeps a file, whose
\* lines are those one of the calls wrote for it.
C34_CommonThreadsKeepFile ==
    AllDone =>
        \A t \in CommonThreads :
            /\ getThreadFilePath(t) \in DOMAIN files
            /\ \E p \in Procs :
                   files[getThreadFilePath(t)] = ThreadLines(procs[p].graph, t)

OtherThreads(s, threadId) == SelectSeq(s, LAMBDA x : x.agentThreadId # threadId)

\* C35: the thread-scoped pruneMemory leaves every persisted entity and
\* relation whose agentThreadId differs from threadId as it was.
C35_OtherThreadsUntouched ==
    last.op = "pruneMemoryInThread" =>
        /\ OtherThreads(Persisted(files).entities, last.threadId)
               = OtherThreads(last.before.entities, last.threadId)
        /\ OtherThreads(Persisted(files).relations, last.threadId)
               = OtherThreads(last.before.relations, last.threadId)

\* C35 witness: a call that removed an entity of its thread while another
\* thread holds an entity the options would remove and a relation that ends
\* at the removed entity.
C35_Witness ==
    /\ last.op = "pruneMemoryInThread"
    /\ last.returned.removedEntities > 0
    /\ last.options.importanceLessThan # Undefined
    /\ last.options.keepMinEntities = Undefined
    /\ \E e \in Range(OtherThreads(Persisted(files).entities, last.threadId)) :
           e.importance < last.options.importanceLessThan[1]
    /\ \E r \in Range(OtherThreads(Persisted(files).relations, last.threadId)) :
           r.from \notin {e.name : e \in Range(Persisted(files).entities)}

\* C36: the removedRelations the thread-scoped pruneMemory returns is the
\* number of relations the call removed from the persisted graph.
C36_RemovedRelationsCounted ==
    last.op = "pruneMemoryInThread" =>
        last.returned.removedRelations
            = Len(last.before.relations) - Len(Persisted(files).relations)

\* What the count is: the removed relations of the thread that had both
\* ends among the entities of the thread.
C36_CountsRelationsInsideThread ==
    last.op = "pruneMemoryInThread" =>
        LET names == {e.name : e \in Range(InThread(last.before.entities, last.threadId))}
            inside(rs) == SelectSeq(InThread(rs, last.threadId),
                              LAMBDA r : r.from \in names /\ r.to \in names)
        IN  last.returned.removedRelations
                = Len(inside(last.before.relations))
                      - Len(inside(Persisted(files).relations))

====
